---- MODULE Spec2Model ----
(***************************************************************************)
(* Model of trevanquant's scheduling and persistence core:                 *)
(*   - TaskScheduler (scheduler/task_scheduler.py) on top of the `schedule`*)
(*     library's module-global job list,                                   *)
(*   - Application (scheduler/runner.py): the commands "start", "run" and  *)
(*     "status",                                                           *)
(*   - EmailService and ReportGenerator.send_daily_report (report/),       *)
(*   - DatabaseManager.session_scope and the DailyData upsert              *)
(*     (database/connection.py, database/crud.py, database/models.py),     *)
(*   - the tables stocks, technical_indicators and data_update_logs with   *)
(*     their CRUD classes, init_base_data and create_sample_stock          *)
(*     (database/migrations.py),                                           *)
(*   - the Sync Orchestrator and the Update Ledger's begin/complete, whose *)
(*     code (data/sync.py, data/indicators.py) is not part of the sources  *)
(*     at hand: they follow the design document.                           *)
(* Time is counted in slots of 30 minutes; slot 0 is a Monday 00:00.       *)
(***************************************************************************)
EXTENDS Integers, Sequences, FiniteSets, TLC

VARIABLES
    now,              \* wall clock, in slots
    running,          \* TaskScheduler.running
    scheduler_thread, \* TaskScheduler.scheduler_thread: 0 (None) or an index of thr
    jobs,             \* schedule.jobs: the module-global list of registered jobs
    thr,              \* the dispatch-loop threads created so far
    mainpc,           \* the caller of start()/stop(): "idle" or "join" (inside stop)
    man,              \* the caller of run_task_now(): idle or inside a task
    warned,           \* which of start()/stop() last returned at its warning: "none", "start", "stop"
    result,           \* the value the last run_task_now() returned
    app,              \* Application (scheduler/runner.py): its position and its running flag
    probe,            \* the value the last query (_is_trading_day, get_next_runs) returned
    daily,            \* rows of table daily_data (committed)
    next_id,          \* autoincrement counter of daily_data.id
    ws,               \* the writers' sessions
    sess,             \* a session of session_scope: the calls made on it and what they left
    logs,             \* the files of directory logs/
    stocks,           \* rows of table stocks (committed)
    indicators,       \* rows of table technical_indicators (committed)
    ledger,           \* rows of table data_update_logs, in the order of their ids
    sync              \* the Sync Orchestrator operation in progress, and its result

schedVars == <<now, running, scheduler_thread, jobs, thr, mainpc, man, warned, result,
               app, probe>>
dailyVars == <<daily, next_id, ws, sess, logs>>
dataVars == <<stocks, indicators, ledger, sync>>
storeVars == <<daily, next_id, ws, sess, logs, stocks, indicators, ledger, sync>>
appVars == <<app, probe>>
vars == <<now, running, scheduler_thread, jobs, thr, mainpc, man, warned, result,
          app, probe, daily, next_id, ws, sess, logs, stocks, indicators, ledger, sync>>

----------------------------------------------------------------------------
(* Bounds *)
Horizon   == 1    \* slots the clock may advance past the process start
MaxStarts == 2    \* start() calls that launch a dispatch-loop thread
MaxBatch  == 2    \* records in one data_list handed to batch_upsert
MaxWeeks  == 1    \* weeks of the calendar a script may be run in
MaxUnits  == 2    \* sync units begun in the update ledger

----------------------------------------------------------------------------
(* Calendar *)
SlotsPerDay  == 48
DaysPerWeek  == 7
SlotsPerWeek == SlotsPerDay * DaysPerWeek

At(hh, mm) == 2 * hh + (mm \div 30)          \* "HH:MM" as a slot of the day
Slot(day, hh, mm) == day * SlotsPerDay + At(hh, mm)
weekday(t) == (t \div SlotsPerDay) % DaysPerWeek   \* 0 = Monday .. 6 = Sunday

\* The process is started at 14:30, on a Monday or on a Saturday
StartTime  == At(14, 30)
StartDays  == {0, 5}
StartSlots == {d * SlotsPerDay + StartTime : d \in StartDays}

----------------------------------------------------------------------------
(* The task names and the trigger table *)
TaskNames == {"daily_data_sync", "daily_report", "stock_list_update",
              "technical_indicators", "data_cleanup", "health_check"}
OtherNames == {"full_sync"}     \* a name that is not in task_map
\* the names run_task_now is called with
ManualNames == {"health_check", "daily_data_sync"} \cup OtherNames

Weekly(f, d, hh, mm) == [func |-> f, unit |-> "weeks", day |-> d, at |-> At(hh, mm)]
Daily(f, hh, mm)     == [func |-> f, unit |-> "days", day |-> 0, at |-> At(hh, mm)]
Every(f, n)          == [func |-> f, unit |-> "interval", day |-> 0, at |-> n]

HealthCheckInterval == 1   \* every(30).minutes, in slots

\* range(9, 15) for range(9, 16): the 15:00 trigger is missing
setup_schedules_mut ==
    [d \in 1..5 |-> Weekly("daily_data_sync", d - 1, 15, 30)]
    \o [d \in 1..5 |-> Weekly("daily_report", d - 1, 16, 0)]
    \o << Weekly("stock_list_update", 6, 20, 0) >>
    \o [h \in 1..6 |-> Daily("technical_indicators", h + 8, 0)]
    \o << Daily("data_cleanup", 2, 0) >>
    \o << Every("health_check", HealthCheckInterval) >>
\* TaskScheduler._setup_schedules: the triggers, in the order of registration
setup_schedules ==
    [d \in 1..5 |-> Weekly("daily_data_sync", d - 1, 15, 30)]
    \o [d \in 1..5 |-> Weekly("daily_report", d - 1, 16, 0)]
    \o << Weekly("stock_list_update", 6, 20, 0) >>
    \o [h \in 1..7 |-> Daily("technical_indicators", h + 8, 0)]
    \o << Daily("data_cleanup", 2, 0) >>
    \o << Every("health_check", HealthCheckInterval) >>

\* schedule's Job._schedule_next_run: the first trigger point after t
NextRun(trig, t) ==
    CASE trig.unit = "weeks" ->
            LET target == trig.day * SlotsPerDay + trig.at
                d == (target + SlotsPerWeek - (t % SlotsPerWeek)) % SlotsPerWeek
            IN  t + (IF d = 0 THEN SlotsPerWeek ELSE d)
      [] trig.unit = "days" ->
            LET d == (trig.at + SlotsPerDay - (t % SlotsPerDay)) % SlotsPerDay
            IN  t + (IF d = 0 THEN SlotsPerDay ELSE d)
      [] OTHER -> t + trig.at

\* schedule.every()...do(f): appends one job per trigger to the global list
Register(js, t) ==
    js \o [i \in 1..Len(setup_schedules) |->
              [func |-> setup_schedules[i].func, trig |-> i,
               next_run |-> NextRun(setup_schedules[i], t)]]

\* Job.should_run
should_run(j, t) == t >= j.next_run

RECURSIVE SortByNextRun(_, _)
SortByNextRun(js, S) ==
    IF S = {} THEN << >>
    ELSE LET m == CHOOSE i \in S : \A k \in S :
                     \/ js[i].next_run < js[k].next_run
                     \/ js[i].next_run = js[k].next_run /\ i <= k
         IN  << m >> \o SortByNextRun(js, S \ {m})

\* schedule.run_pending: the due jobs, sorted by next run (stable)
Runnable(js, t) == SortByNextRun(js, {i \in 1..Len(js) : should_run(js[i], t)})

----------------------------------------------------------------------------
(* The job wrappers *)
\* what the environment does to one execution of a wrapper
Envs == [store_ok : BOOLEAN, log_ok : BOOLEAN]

\* "> 5" for ">= 5": Saturday passes
is_trading_day_mut(t) == weekday(t) <= 5
is_trading_day(t) == weekday(t) < 5

\* TaskScheduler._is_trading_day as its callers see it: ok = FALSE is an
\* evaluation that fails inside the try block (except Exception: return False)
trading_day_check(t, ok) == IF ok THEN is_trading_day(t) ELSE FALSE

\* a gate that one of the wrappers lacks
Gated_mut == {"daily_data_sync", "daily_report"}
\* the wrappers that start with "if not self._is_trading_day(): return"
Gated == {"daily_data_sync", "daily_report", "technical_indicators"}

\* the collaborator operation the body of a wrapper calls
Body(f) ==
    CASE f = "daily_data_sync"      -> "full_sync"
      [] f = "daily_report"         -> "send_daily_report"
      [] f = "stock_list_update"    -> "sync_stock_list"
      [] f = "technical_indicators" -> "sync_technical_indicators"
      [] f = "data_cleanup"         -> "cleanup_logs"
      [] OTHER                      -> "session_scope"

\* what a wrapper entered at time t invokes: "none" when it returns at its gate
Invoke(f, t) == IF f \in Gated /\ ~is_trading_day(t) THEN "none" ELSE Body(f)

\* TRUE iff the wrapper lets an exception escape to its caller.  Every
\* wrapper runs its body inside try/except Exception; what is outside the try
\* is the logging call at its entry (the health check has none: it logs only
\* from its handler, when the store probe has raised).
\* store_ok = FALSE is an execution whose body raises (the store, the Sync
\* Orchestrator, the report collaborator or the log cleanup fails); log_ok =
\* FALSE is one whose logging calls raise.
\* a wrapper whose body is not inside a try block
BodyInTry_mut(f) == f # "stock_list_update"
\* the body of every wrapper is inside "try: ... except Exception as e:"
BodyInTry(f) == TRUE

TaskRaises(f, env) ==
    \/ f # "health_check" /\ ~env.log_ok
    \/ ~env.store_ok /\ (~BodyInTry(f) \/ ~env.log_ok)

\* TRUE iff the handler of the wrapper has logged the failure of its body
\* (call is what the wrapper invoked: "none" when it returned at its gate)
FailureLogged(f, env, call) ==
    call # "none" /\ ~env.store_ok /\ BodyInTry(f) /\ env.log_ok

----------------------------------------------------------------------------
(* Threads *)
NewThread == [pc |-> "loop", queue |-> << >>, cur |-> 0, call |-> "none"]
DeadThread == [pc |-> "dead", queue |-> << >>, cur |-> 0, call |-> "none"]
\* the thread enters the wrapper of job j, the rest of the due jobs waits
RunJob(js, j, rest, t) == [pc |-> "job", cur |-> j, queue |-> rest,
                           call |-> Invoke(js[j].func, t)]
Alive(i) == i # 0 /\ thr[i].pc # "dead"
Threads == 1..Len(thr)

\* success, error, message: the dict run_task_now returns; logged: whether the
\* wrapper it ran has logged a failure of its body
NoResult == [success |-> TRUE, error |-> "", message |-> "none", logged |-> FALSE]
ManIdle == [pc |-> "idle", task |-> "none", call |-> "none"]

\* the trigger point a job is due for
Point(j) == <<j.trig, j.next_run>>
\* pc: where the main thread is; running: Application.running; exc: an
\* exception is on its way out of Application.start; stop_called: _shutdown
\* has called task_scheduler.stop()
AppInit == [pc |-> "init", running |-> FALSE, exc |-> FALSE, stop_called |-> FALSE]
NoProbe == [op |-> "none"]

InitSched ==
    /\ now \in StartSlots
    /\ running = FALSE
    /\ scheduler_thread = 0
    /\ jobs = << >>
    /\ thr = << >>
    /\ mainpc = "idle"
    /\ man = ManIdle
    /\ warned = "none"
    /\ result = NoResult
    /\ app = AppInit
    /\ probe = NoProbe

----------------------------------------------------------------------------
(* TaskScheduler.start *)
\* start() without its guard
StartIsNoop_mut == FALSE
\* if self.running: logger.warning(...); return
StartIsNoop == running

start ==
    /\ mainpc = "idle"
    /\ IF StartIsNoop
       THEN /\ warned' = "start"
            /\ UNCHANGED <<running, scheduler_thread, jobs, thr>>
       ELSE /\ Len(thr) < MaxStarts
            /\ running' = TRUE
            /\ jobs' = Register(jobs, now)
            /\ thr' = Append(thr, NewThread)
            /\ scheduler_thread' = Len(thr) + 1
            /\ warned' = "none"
    /\ UNCHANGED <<now, mainpc, man, result>>
    /\ UNCHANGED storeVars
    /\ UNCHANGED appVars

(* TaskScheduler.stop *)
\* stop() without its guard
StopIsNoop_mut == FALSE
\* if not self.running: logger.warning(...); return
StopIsNoop == ~running

\* what stop() does to the scheduler
stop_steps ==
    /\ mainpc = "idle"
    /\ IF StopIsNoop
       THEN /\ warned' = "stop"
            /\ UNCHANGED <<running, mainpc>>
       ELSE /\ running' = FALSE
            /\ warned' = "none"
            /\ mainpc' = IF Alive(scheduler_thread) THEN "join" ELSE "idle"
    /\ UNCHANGED <<now, scheduler_thread, jobs, thr, man, result>>
    /\ UNCHANGED storeVars

stop ==
    /\ stop_steps
    /\ UNCHANGED appVars

\* scheduler_thread.join(timeout=5) returns because the thread has ended
stop_joined ==
    /\ mainpc = "join"
    /\ ~Alive(scheduler_thread)
    /\ mainpc' = "idle"
    /\ UNCHANGED <<now, running, scheduler_thread, jobs, thr, man, warned, result>>
    /\ UNCHANGED storeVars
    /\ UNCHANGED appVars

\* join() without a timeout: it returns only when the thread has ended
JoinTimeout_mut(t) == FALSE
\* join(timeout=5) gives up on a thread that stays alive for five seconds: one
\* inside a job body or in the five second sleep that follows an error
JoinTimeout(t) == t.pc \in {"job", "errsleep"}

\* ... or because the timeout has expired
stop_timeout ==
    /\ mainpc = "join"
    /\ Alive(scheduler_thread)
    /\ JoinTimeout(thr[scheduler_thread])
    /\ mainpc' = "idle"
    /\ UNCHANGED <<now, running, scheduler_thread, jobs, thr, man, warned, result>>
    /\ UNCHANGED storeVars
    /\ UNCHANGED appVars

----------------------------------------------------------------------------
(* TaskScheduler._run_scheduler, one action per step of a thread *)
\* a loop without the handler: the exception ends the thread
OnLoopException_mut == "dead"
\* where the thread goes when an exception reaches the loop's handler
OnLoopException == "errsleep"

\* "while True:": the loop never looks at the flag
LoopCondition_mut(r) == TRUE
\* the condition of "while self.running:"
LoopCondition(r) == r

\* while self.running: schedule.run_pending() collects the due jobs and
\* starts the first of them
loop_tick(i) ==
    /\ thr[i].pc = "loop"
    /\ IF ~LoopCondition(running)
       THEN thr' = [thr EXCEPT ![i] = DeadThread]
       ELSE /\ Runnable(jobs, now) # << >>
            /\ thr' = [thr EXCEPT ![i] = RunJob(jobs, Head(Runnable(jobs, now)),
                                                Tail(Runnable(jobs, now)), now)]
    /\ UNCHANGED <<now, running, scheduler_thread, jobs, mainpc, man, warned, result>>
    /\ UNCHANGED storeVars
    /\ UNCHANGED appVars

\* the job wrapper returns: Job.run sets last_run and schedules the next run,
\* run_pending starts the next collected job
loop_job_returns(i) ==
    /\ thr[i].pc = "job"
    /\ \E env \in Envs :
          /\ ~TaskRaises(jobs[thr[i].cur].func, env)
          /\ jobs' = [jobs EXCEPT ![thr[i].cur].next_run =
                         NextRun(setup_schedules[jobs[thr[i].cur].trig], now)]
          /\ thr' = [thr EXCEPT ![i] =
                        IF thr[i].queue = << >> THEN NewThread
                        ELSE RunJob(jobs, Head(thr[i].queue), Tail(thr[i].queue), now)]
    /\ UNCHANGED <<now, running, scheduler_thread, mainpc, man, warned, result>>
    /\ UNCHANGED storeVars
    /\ UNCHANGED appVars

\* the job wrapper raises: run_pending is abandoned, the handler logs and sleeps
loop_job_raises(i) ==
    /\ thr[i].pc = "job"
    /\ \E env \in Envs :
          /\ TaskRaises(jobs[thr[i].cur].func, env)
          /\ thr' = [thr EXCEPT ![i] =
                        IF OnLoopException = "dead" THEN DeadThread
                        ELSE [pc |-> OnLoopException, queue |-> << >>, cur |-> 0,
                              call |-> "none"]]
    /\ UNCHANGED <<now, running, scheduler_thread, jobs, mainpc, man, warned, result>>
    /\ UNCHANGED storeVars
    /\ UNCHANGED appVars

\* time.sleep(5) of the handler ends
loop_err_wake(i) ==
    /\ thr[i].pc = "errsleep"
    /\ thr' = [thr EXCEPT ![i].pc = "loop"]
    /\ UNCHANGED <<now, running, scheduler_thread, jobs, mainpc, man, warned, result>>
    /\ UNCHANGED storeVars
    /\ UNCHANGED appVars

----------------------------------------------------------------------------
(* TaskScheduler.run_task_now, called from a context of its own *)
\* a registry that knows one name more
task_map_mut == TaskNames \cup OtherNames
task_map == TaskNames

\* what run_task_now does to the scheduler
run_task_now_steps(name) ==
    /\ man.pc = "idle"
    /\ IF name \notin task_map
       THEN /\ result' = [success |-> FALSE, error |-> "unknown task", message |-> "",
                         logged |-> FALSE]
            /\ man' = man
       ELSE /\ man' = [pc |-> "job", task |-> name, call |-> Invoke(name, now)]
            /\ result' = result
    /\ UNCHANGED <<now, running, scheduler_thread, jobs, thr, mainpc, warned>>
    /\ UNCHANGED storeVars

run_task_now(name) ==
    /\ run_task_now_steps(name)
    /\ UNCHANGED appVars

\* the value run_task_now returns once the wrapper has ended
TaskResult(f, env, call) ==
    IF TaskRaises(f, env)
    THEN [success |-> FALSE, error |-> "exception", message |-> "", logged |-> FALSE]
    ELSE [success |-> TRUE, error |-> "", message |-> "done",
          logged |-> FailureLogged(f, env, call)]

\* a manual run that goes through Job.run: the jobs of the task are rescheduled
AfterManualRun_mut(js, f, t) ==
    [i \in 1..Len(js) |->
        IF js[i].func = f
        THEN [js[i] EXCEPT !.next_run = NextRun(setup_schedules[js[i].trig], t)]
        ELSE js[i]]
\* task_map[task_name](): the wrapper is called directly, not through its Job
AfterManualRun(js, f, t) == js

\* the wrapper run_task_now has called ends
run_task_done_steps(env) ==
    /\ man.pc = "job"
    /\ result' = TaskResult(man.task, env, man.call)
    /\ man' = ManIdle
    /\ jobs' = AfterManualRun(jobs, man.task, now)
    /\ UNCHANGED <<now, running, scheduler_thread, thr, mainpc, warned>>
    /\ UNCHANGED storeVars

run_task_done(env) ==
    /\ run_task_done_steps(env)
    /\ UNCHANGED appVars

----------------------------------------------------------------------------
(* The clock *)
Tick ==
    /\ (now % SlotsPerDay) - StartTime < Horizon
    /\ now' = now + 1
    /\ UNCHANGED <<running, scheduler_thread, jobs, thr, mainpc, man, warned, result>>
    /\ UNCHANGED storeVars
    /\ UNCHANGED appVars

----------------------------------------------------------------------------
(* The scheduler object used without its loop: commands "run" and "status"  *)
(* of runner.py and scripts/test_scheduler.py                               *)
\* task_scheduler._setup_schedules() called directly (test_scheduler_setup)
setup_only ==
    /\ jobs = << >>
    /\ jobs' = Register(jobs, now)
    /\ UNCHANGED <<now, running, scheduler_thread, thr, mainpc, man, warned, result, app, probe>>
    /\ UNCHANGED storeVars

\* task_scheduler._is_trading_day() (test_trading_day_check)
check_trading_day(ok) ==
    /\ probe' = [op |-> "is_trading_day", ok |-> ok, ret |-> trading_day_check(now, ok)]
    /\ UNCHANGED <<now, running, scheduler_thread, jobs, thr, mainpc, man, warned, result, app>>
    /\ UNCHANGED storeVars

\* the dict get_next_runs builds: it is keyed by the name of the job's function,
\* so of the jobs of one function the one registered last stays
LastJobOf(js, f) ==
    CHOOSE i \in 1..Len(js) :
        js[i].func = f /\ \A k \in 1..Len(js) : js[k].func = f => k <= i
next_runs(js) ==
    [f \in {js[i].func : i \in 1..Len(js)} |-> js[LastJobOf(js, f)].next_run]

\* task_scheduler.get_next_runs() (show_status, test_scheduler_setup)
get_next_runs ==
    /\ probe' = [op |-> "get_next_runs", ret |-> next_runs(jobs)]
    /\ UNCHANGED <<now, running, scheduler_thread, jobs, thr, mainpc, man, warned, result, app>>
    /\ UNCHANGED storeVars

----------------------------------------------------------------------------
(* Application.show_status (scheduler/runner.py), command "status"          *)
StatusTypes == <<"stock_info", "daily_data", "technical_indicators", "market_indices">>
\* what get_sync_status holds for a data type: a dict with a status, a dict
\* without the key 'status' ("-"), or a value that is not a dict ("nodict")
StatusValues == {"SUCCESS", "NEVER", "-", "nodict"}
\* what data_sync_manager.get_sync_status() does: it raises, or it returns a
\* dict with 'success' and one entry for each data type
SyncStatuses ==
    [raises : {TRUE}, success : {FALSE}, types : {[k \in 1..Len(StatusTypes) |-> "-"]}]
    \cup [raises : {FALSE}, success : {FALSE}, types : {[k \in 1..Len(StatusTypes) |-> "-"]}]
    \cup [raises : {FALSE}, success : {TRUE}, types : [1..Len(StatusTypes) -> StatusValues]]

\* a body of show_status that is not inside a try block
StatusInTry_mut == FALSE
\* the body of show_status is inside "try: ... except Exception as e:"
StatusInTry == TRUE

\* value.get('status', 'UNKNOWN')
shown_status(value) == IF value = "-" THEN "UNKNOWN" ELSE value

\* the first data type whose value makes value.get raise, 0 when there is none
FirstBad(st) ==
    IF \E k \in 1..Len(st.types) : st.types[k] = "nodict"
    THEN CHOOSE k \in 1..Len(st.types) :
            st.types[k] = "nodict" /\ \A n \in 1..(k - 1) : st.types[n] # "nodict"
    ELSE 0
\* TRUE iff the try block of show_status is left by an exception
StatusBodyRaises(st) == st.raises \/ (st.success /\ FirstBad(st) # 0)
\* the lines "key: status" show_status has logged
StatusLines(st) ==
    IF st.raises \/ ~st.success THEN << >>
    ELSE [k \in 1..(IF FirstBad(st) = 0 THEN Len(st.types) ELSE FirstBad(st) - 1) |->
             <<StatusTypes[k], shown_status(st.types[k])>>]

\* python -m ... status: Application().show_status(), then the process ends
show_status(st, log_ok) ==
    /\ app.pc = "init"
    /\ app' = [app EXCEPT !.pc = "exited"]
    /\ probe' =
          IF ~log_ok \/ (StatusBodyRaises(st) /\ ~StatusInTry)
          THEN [op |-> "show_status", raised |-> TRUE, error_logged |-> FALSE,
                status |-> << >>, next_runs |-> << >>]
          ELSE [op |-> "show_status", raised |-> FALSE,
                error_logged |-> StatusBodyRaises(st),
                status |-> StatusLines(st),
                next_runs |-> IF StatusBodyRaises(st) THEN << >> ELSE next_runs(jobs)]
    /\ UNCHANGED <<now, running, scheduler_thread, jobs, thr, mainpc, man, warned, result>>
    /\ UNCHANGED storeVars

----------------------------------------------------------------------------
(* EmailService (report/email_service.py) and ReportGenerator.              *)
(* send_daily_report (report/generator.py)                                  *)
\* EmailConfig: "" is a sender address or password that is not configured,
\* << >> an empty list of recipients
EmailConfigs == [sender_email : {"", "s"}, sender_password : {"", "p"},
                 recipients : {<< >>, <<"r">>}]
\* the recipients argument of the send functions: None or a list
RecipientArgs == {<< >>, <<"a">>}
\* where the SMTP conversation raises: nowhere ("ok"), or in one of its calls
SmtpOutcomes == {"ok", "connect", "starttls", "login", "sendmail", "quit"}

\* a server has nothing to accept a login without an address or a password with
Smtp(cfg, smtp) ==
    IF smtp = "ok" /\ (cfg.sender_email = "" \/ cfg.sender_password = "")
    THEN "login"
    ELSE smtp

\* EmailService._send_email: connects counts the calls of smtplib.SMTP(...),
\* sent whether server.sendmail has returned
_send_email(cfg, rcpts, smtp) ==
    [success |-> Smtp(cfg, smtp) = "ok",
     error |-> IF Smtp(cfg, smtp) = "ok" THEN "" ELSE "smtp",
     connects |-> 1,
     sent |-> Smtp(cfg, smtp) \in {"ok", "quit"}]

\* if not recipients: recipients = self.email_config.recipients
Recipients(cfg, arg) == IF arg = << >> THEN cfg.recipients ELSE arg

\* EmailService.send_email
send_email(cfg, arg, smtp) ==
    IF Recipients(cfg, arg) = << >>
    THEN [success |-> FALSE, error |-> "no recipients", connects |-> 0, sent |-> FALSE]
    ELSE _send_email(cfg, Recipients(cfg, arg), smtp)

\* EmailService.send_template_email; render_ok = FALSE: the template is
\* missing or does not render
send_template_email(cfg, arg, render_ok, smtp) ==
    IF ~render_ok
    THEN [success |-> FALSE, error |-> "template", connects |-> 0, sent |-> FALSE]
    ELSE send_email(cfg, arg, smtp)

\* no mail was tried
NoMail == [success |-> FALSE, error |-> "none", connects |-> 0, sent |-> FALSE]

\* a send_daily_report that does not look at the result of the generation
ReportFailed_mut(gen_ok) == FALSE
\* if not result['success']: return result
ReportFailed(gen_ok) == ~gen_ok

\* ReportGenerator.send_daily_report; gen_ok: generate_daily_report returns
\* success: True.  calls: the calls of send_template_email made
send_daily_report(cfg, arg, gen_ok, render_ok, smtp) ==
    IF ReportFailed(gen_ok)
    THEN [success |-> FALSE, report_generated |-> "-", email_sent |-> "-",
          error |-> "generation", calls |-> 0, mail |-> NoMail]
    ELSE LET email_result == send_template_email(cfg, arg, render_ok, smtp)
         IN  [success |-> email_result.success, report_generated |-> "T",
              email_sent |-> IF email_result.success THEN "T" ELSE "F",
              error |-> email_result.error, calls |-> 1, mail |-> email_result]

\* report_generator.send_daily_report(...) is called
report_sent(cfg, arg, gen_ok, render_ok, smtp) ==
    /\ probe' = [op |-> "send_daily_report", cfg |-> cfg, arg |-> arg, gen_ok |-> gen_ok,
                 render_ok |-> render_ok, smtp |-> smtp,
                 ret |-> send_daily_report(cfg, arg, gen_ok, render_ok, smtp)]
    /\ UNCHANGED <<now, running, scheduler_thread, jobs, thr, mainpc, man, warned, result, app>>
    /\ UNCHANGED storeVars

\* email_service.send_email(...) is called
email_sent(cfg, arg, smtp) ==
    /\ probe' = [op |-> "send_email", cfg |-> cfg, arg |-> arg, smtp |-> smtp,
                 ret |-> send_email(cfg, arg, smtp)]
    /\ UNCHANGED <<now, running, scheduler_thread, jobs, thr, mainpc, man, warned, result, app>>
    /\ UNCHANGED storeVars

----------------------------------------------------------------------------
(* Application.run_once (scheduler/runner.py), command "run"                *)
\* the names the command is given: a task, a name that is no task, or none
OnceNames == TaskNames \cup OtherNames \cup {""}

\* run_once without its guard
NoTaskName_mut(name) == FALSE
\* if not task_name: logger.error(...); return
NoTaskName(name) == name = ""

\* python -m ... run [--task NAME]: Application().run_once(NAME); calls: the
\* calls of run_task_now made so far, ran: the wrappers that have ended
run_once(name) ==
    /\ app.pc = "init"
    /\ app' = [app EXCEPT !.pc = IF NoTaskName(name) THEN "exited" ELSE "once"]
    /\ probe' = [op |-> "run_once", task |-> name, calls |-> 0, ran |-> << >>]
    /\ UNCHANGED <<now, running, scheduler_thread, jobs, thr, mainpc, man, warned, result>>
    /\ UNCHANGED storeVars

\* result = task_scheduler.run_task_now(task_name)
once_call ==
    /\ app.pc = "once"
    /\ probe.calls = 0
    /\ run_task_now_steps(probe.task)
    /\ probe' = [probe EXCEPT !.calls = 1]
    /\ app' = app

\* ... the wrapper it has called ends
once_done(env) ==
    /\ app.pc = "once"
    /\ run_task_done_steps(env)
    /\ probe' = [probe EXCEPT !.ran = Append(@, man.task)]
    /\ app' = app

\* the result is logged, run_once returns and the process ends
once_exit ==
    /\ app.pc = "once"
    /\ probe.calls = 1
    /\ man.pc = "idle"
    /\ app' = [app EXCEPT !.pc = "exited"]
    /\ UNCHANGED <<now, running, scheduler_thread, jobs, thr, mainpc, man, warned, result,
                   probe>>
    /\ UNCHANGED storeVars

----------------------------------------------------------------------------
(* Application (scheduler/runner.py), command "start": the process that     *)
(* owns the scheduler.  The dispatch-loop thread is a daemon thread.        *)
\* Application.start: self.running = True
app_start ==
    /\ app.pc = "init"
    /\ app' = [app EXCEPT !.pc = "starting", !.running = TRUE]
    /\ UNCHANGED <<now, running, scheduler_thread, jobs, thr, mainpc, man, warned, result,
                   probe>>
    /\ UNCHANGED storeVars

\* ... task_scheduler.start()
app_scheduler_start ==
    /\ app.pc = "starting"
    /\ ~running
    /\ start

\* ... _show_system_info(), then the main loop is reached
app_enter_loop ==
    /\ app.pc = "starting"
    /\ running
    /\ app' = [app EXCEPT !.pc = "main"]
    /\ UNCHANGED <<now, running, scheduler_thread, jobs, thr, mainpc, man, warned, result,
                   probe>>
    /\ UNCHANGED storeVars

\* Application._signal_handler on SIGINT or SIGTERM: self.running = False
app_signal ==
    /\ app.pc \in {"starting", "main"}
    /\ app.running
    /\ app' = [app EXCEPT !.running = FALSE]
    /\ UNCHANGED <<now, running, scheduler_thread, jobs, thr, mainpc, man, warned, result,
                   probe>>
    /\ UNCHANGED storeVars

\* a try block of Application.start without its finally clause
OnAppExit_mut(exc) == IF exc THEN "exited" ELSE "shutdown"
\* where the main thread goes when the try block of Application.start is
\* left, normally or by an exception: finally: self._shutdown()
OnAppExit(exc) == "shutdown"

\* task_scheduler.start() raises, in _setup_schedules or in Thread.start():
\* self.running is already True, no thread runs
app_scheduler_start_raises(registered) ==
    /\ app.pc = "starting"
    /\ ~running
    /\ mainpc = "idle"
    /\ running' = TRUE
    /\ jobs' = IF registered THEN Register(jobs, now) ELSE jobs
    /\ warned' = "none"
    /\ app' = [app EXCEPT !.pc = OnAppExit(TRUE), !.exc = TRUE]
    /\ UNCHANGED <<now, scheduler_thread, thr, mainpc, man, result, probe>>
    /\ UNCHANGED storeVars

\* a main loop that never looks at the flag
AppLoopCondition_mut(r) == TRUE
\* while self.running:
AppLoopCondition(r) == r

\* while self.running: time.sleep(1) ends; finally: self._shutdown()
app_leave_loop ==
    /\ app.pc = "main"
    /\ ~AppLoopCondition(app.running)
    /\ app' = [app EXCEPT !.pc = OnAppExit(FALSE)]
    /\ UNCHANGED <<now, running, scheduler_thread, jobs, thr, mainpc, man, warned, result,
                   probe>>
    /\ UNCHANGED storeVars

\* _show_system_info or time.sleep(1) raises: KeyboardInterrupt (break, or
\* past except Exception) or an exception, which the handler of
\* Application.start logs and raises again
app_loop_raises(exc) ==
    /\ app.pc = "main" \/ (app.pc = "starting" /\ running)
    /\ app' = [app EXCEPT !.pc = OnAppExit(exc), !.exc = exc]
    /\ UNCHANGED <<now, running, scheduler_thread, jobs, thr, mainpc, man, warned, result,
                   probe>>
    /\ UNCHANGED storeVars

\* Application._shutdown: task_scheduler.stop()
app_scheduler_stop ==
    /\ app.pc = "shutdown"
    /\ ~app.stop_called
    /\ stop_steps
    /\ app' = [app EXCEPT !.stop_called = TRUE]
    /\ probe' = probe

\* ... and stop() raises once it has cleared the flag (in join): the handler
\* of _shutdown logs the exception
app_scheduler_stop_raises ==
    /\ app.pc = "shutdown"
    /\ ~app.stop_called
    /\ mainpc = "idle"
    /\ running
    /\ running' = FALSE
    /\ warned' = "none"
    /\ app' = [app EXCEPT !.stop_called = TRUE]
    /\ UNCHANGED <<now, scheduler_thread, jobs, thr, mainpc, man, result, probe>>
    /\ UNCHANGED storeVars

\* _shutdown has returned, start() returns or raises again, main() ends and
\* the interpreter exits: the daemon threads end where they are
app_exit ==
    /\ app.pc = "shutdown"
    /\ app.stop_called
    /\ mainpc = "idle"
    /\ app' = [app EXCEPT !.pc = "exited"]
    /\ thr' = [i \in DOMAIN thr |-> DeadThread]
    /\ UNCHANGED <<now, running, scheduler_thread, jobs, mainpc, man, warned, result,
                   probe>>
    /\ UNCHANGED storeVars

----------------------------------------------------------------------------
(* The store: table daily_data, BaseCRUD and DailyDataCRUD.batch_upsert.    *)
(* BaseCRUD.create and BaseCRUD.update end with session.commit(), so a      *)
(* session holds nothing uncommitted between two records of a batch.        *)
Writers == {1, 2}        \* 1: the scheduled job, 2: a manual run_task_now
Keys == {"k1", "k2"}     \* (stock_code, trade_date)
Vals == {1, 2}           \* the price fields of a record
\* a record of a data_list; valid = FALSE: a NOT NULL column is missing
Records == [key : Keys, val : Vals, valid : BOOLEAN]
DataLists == UNION {[1..n -> Records] : n \in 1..MaxBatch}
\* the data_lists of two writers that fetched different prices: writer w holds val = w
OwnLists(w) == {dl \in DataLists : \A k \in 1..Len(dl) : dl[k].valid /\ dl[k].val = w}

ClosedSession == [pc |-> "closed", rest |-> << >>, existing |-> 0,
                  written |-> {}, outcome |-> "none", clean |-> TRUE]

\* a lookup that never finds the row
get_by_stock_and_date_mut(rows, key) == 0
\* DailyDataCRUD.get_by_stock_and_date: the id of the row of that key, 0 for None
get_by_stock_and_date(rows, key) ==
    IF \E r \in rows : r.key = key
    THEN (CHOOSE r \in rows : r.key = key).id
    ELSE 0

\* UniqueConstraint('stock_code', 'trade_date'): may a row of this key be inserted
uq_stock_date(rows, key) == \A r \in rows : r.key # key

\* BaseCRUD.create: INSERT and commit; ok = FALSE: the commit raises IntegrityError
create(rows, id, d) ==
    IF d.valid /\ uq_stock_date(rows, d.key)
    THEN [ok |-> TRUE, rows |-> rows \cup {[id |-> id, key |-> d.key, val |-> d.val]}]
    ELSE [ok |-> FALSE, rows |-> rows]

\* BaseCRUD.update: set the fields of the row found and commit
update(rows, id, d) ==
    IF d.valid
    THEN [ok |-> TRUE,
          rows |-> {IF r.id = id THEN [id |-> id, key |-> d.key, val |-> d.val] ELSE r
                       : r \in rows}]
    ELSE [ok |-> FALSE, rows |-> rows]

\* with db_manager.session_scope() as session: batch_upsert(session, data_list)
session_scope(w, data_list) ==
    /\ ws[w].pc = "closed"
    /\ ws' = [ws EXCEPT ![w] = [pc |-> "check", rest |-> data_list, existing |-> 0,
                                written |-> {}, outcome |-> "none",
                                clean |-> \A k \in 1..Len(data_list) : data_list[k].valid]]
    /\ UNCHANGED <<daily, next_id, sess, logs>>
    /\ UNCHANGED schedVars
    /\ UNCHANGED dataVars

\* batch_upsert: existing = self.get_by_stock_and_date(...)
upsert_check(w) ==
    /\ ws[w].pc = "check"
    /\ ws' = [ws EXCEPT ![w].pc = "write",
                        ![w].existing = get_by_stock_and_date(daily, Head(ws[w].rest).key)]
    /\ UNCHANGED <<daily, next_id, sess, logs>>
    /\ UNCHANGED schedVars
    /\ UNCHANGED dataVars

\* batch_upsert: update(existing) or create(data); after the last record the
\* scope commits and closes; an exception makes the scope roll back, close, re-raise
upsert_write(w) ==
    /\ ws[w].pc = "write"
    /\ UNCHANGED schedVars
    /\ UNCHANGED <<sess, logs>>
    /\ UNCHANGED dataVars
    /\ LET d == Head(ws[w].rest)
           e == ws[w].existing
           done == IF e # 0 THEN update(daily, e, d) ELSE create(daily, next_id, d)
           id == IF e # 0 THEN e ELSE next_id
       IN  IF ~done.ok
           THEN /\ ws' = [ws EXCEPT ![w].pc = "closed", ![w].rest = << >>,
                                    ![w].existing = 0, ![w].outcome = "raised"]
                /\ UNCHANGED <<daily, next_id>>
           ELSE /\ daily' = done.rows
                /\ next_id' = IF e # 0 THEN next_id ELSE next_id + 1
                /\ ws' = [ws EXCEPT
                            ![w].rest = Tail(ws[w].rest),
                            ![w].existing = 0,
                            ![w].written = {r \in ws[w].written : r.id # id}
                                           \cup {[id |-> id, key |-> d.key, val |-> d.val,
                                                   op |-> IF e # 0 THEN "update" ELSE "create"]},
                            ![w].pc = IF Len(ws[w].rest) = 1 THEN "closed" ELSE "check",
                            ![w].outcome = IF Len(ws[w].rest) = 1 THEN "committed" ELSE "none"]

----------------------------------------------------------------------------
(* DatabaseManager.session_scope and with_session (database/connection.py). *)
(* The block of the scope adds rows to the session without committing them. *)
Exceptions == {"IntegrityError", "ValueError"}   \* subclasses of Exception
BaseExceptions == {"KeyboardInterrupt"}          \* BaseException, not Exception
CommitError == "OperationalError"                \* what a failing commit raises
BlockOutcomes == {"ok"} \cup Exceptions \cup BaseExceptions
ScopeUsers == {"with", "with_session"}

\* pc: where the scope is; pending: rows added and not committed; written: the
\* rows the block has added; committed: the rows the scope has committed;
\* calls: the calls made on the session; block: how the block ended; exc: the
\* exception in flight; out: what the caller of the scope got
NoSession == [pc |-> "none", via |-> "-", pending |-> {}, written |-> {},
              committed |-> {}, calls |-> << >>, block |-> "-", exc |-> "-", out |-> "-"]

\* a scope with neither an except nor a finally clause
AfterBlock_mut(outcome) == IF outcome = "ok" THEN "commit" ELSE "left"
\* try: yield session; session.commit() / except Exception: session.rollback();
\* raise / finally: session.close()
AfterBlock(outcome) ==
    IF outcome = "ok" THEN "commit"
    ELSE IF outcome \in Exceptions THEN "rollback" ELSE "close"

\* session = self.get_session(); yield session
scope_enter(via) ==
    /\ sess.pc \in {"none", "left"}
    /\ sess' = [NoSession EXCEPT !.pc = "block", !.via = via]
    /\ UNCHANGED <<daily, next_id, ws, logs>>
    /\ UNCHANGED schedVars
    /\ UNCHANGED dataVars

\* the block: session.add(...)
scope_write(v) ==
    /\ sess.pc = "block"
    /\ v \notin sess.written
    /\ sess' = [sess EXCEPT !.pending = @ \cup {v}, !.written = @ \cup {v}]
    /\ UNCHANGED <<daily, next_id, ws, logs>>
    /\ UNCHANGED schedVars
    /\ UNCHANGED dataVars

\* the block ends: it falls off its end (with_session: func returns), or it raises
scope_block_ends(outcome) ==
    /\ sess.pc = "block"
    /\ sess' = [sess EXCEPT !.pc = AfterBlock(outcome),
                            !.block = outcome,
                            !.exc = IF outcome = "ok" THEN "-" ELSE outcome,
                            !.out = IF AfterBlock(outcome) = "left" THEN outcome ELSE "-"]
    /\ UNCHANGED <<daily, next_id, ws, logs>>
    /\ UNCHANGED schedVars
    /\ UNCHANGED dataVars

\* session.commit(); when it raises, the except clause is entered
scope_commit(ok) ==
    /\ sess.pc = "commit"
    /\ sess' = IF ok
               THEN [sess EXCEPT !.pc = "close", !.calls = Append(@, "commit"),
                                 !.committed = sess.pending, !.pending = {}]
               ELSE [sess EXCEPT !.pc = "rollback", !.calls = Append(@, "commit"),
                                 !.exc = CommitError]
    /\ UNCHANGED <<daily, next_id, ws, logs>>
    /\ UNCHANGED schedVars
    /\ UNCHANGED dataVars

\* except Exception: session.rollback(); raise
scope_rollback ==
    /\ sess.pc = "rollback"
    /\ sess' = [sess EXCEPT !.pc = "close", !.calls = Append(@, "rollback"),
                            !.pending = {}]
    /\ UNCHANGED <<daily, next_id, ws, logs>>
    /\ UNCHANGED schedVars
    /\ UNCHANGED dataVars

\* finally: session.close(), which drops what is not committed; then the
\* scope returns or the exception goes on to the caller
scope_close ==
    /\ sess.pc = "close"
    /\ sess' = [sess EXCEPT !.pc = "left", !.calls = Append(@, "close"),
                            !.pending = {},
                            !.out = IF sess.exc = "-" THEN "returned" ELSE sess.exc]
    /\ UNCHANGED <<daily, next_id, ws, logs>>
    /\ UNCHANGED schedVars
    /\ UNCHANGED dataVars

----------------------------------------------------------------------------
(* Table stocks and StockCRUD.create_or_update *)
Codes == {"c1", "c2"}
Names == {"n1", "n2"}
\* a stock_data dict: 'code' is always there, "-" is a key the dict lacks
StockData == [code : Codes, name : Names \cup {"-"}, is_st : {"T", "F", "-"}]

NoStock == [code |-> "-"]
\* a lookup that never finds the row
get_by_code_mut(rows, code) == NoStock
\* StockCRUD.get_by_code: the row of that code, NoStock for None
get_by_code(rows, code) ==
    IF \E r \in rows : r.code = code
    THEN CHOOSE r \in rows : r.code = code
    ELSE NoStock

\* BaseCRUD.create on Stock: INSERT and commit. code is the primary key and
\* name is NOT NULL (ok = FALSE: the commit raises IntegrityError); is_st and
\* is_delisted default to False, created_at and updated_at to now
stock_create(rows, d, t) ==
    IF d.name # "-" /\ \A r \in rows : r.code # d.code
    THEN [ok |-> TRUE,
          rows |-> rows \cup {[code |-> d.code, name |-> d.name,
                               is_st |-> d.is_st = "T", is_delisted |-> FALSE,
                               created_at |-> t, updated_at |-> t]}]
    ELSE [ok |-> FALSE, rows |-> rows]

\* BaseCRUD.update on Stock: setattr for every key of the dict, updated_at = now
stock_update(rows, row, d, t) ==
    [ok |-> TRUE,
     rows |-> (rows \ {row}) \cup
              {[row EXCEPT !.name = IF d.name = "-" THEN @ ELSE d.name,
                           !.is_st = IF d.is_st = "-" THEN @ ELSE d.is_st = "T",
                           !.updated_at = t]}]

\* what StockCRUD.create_or_update makes of the table
upsert_stock(rows, d, t) ==
    IF get_by_code(rows, d.code) # NoStock
    THEN stock_update(rows, get_by_code(rows, d.code), d, t)
    ELSE stock_create(rows, d, t)

\* StockCRUD.get_active_stocks: the codes of the rows neither delisted nor ST
get_active_stocks(rows) == {r.code : r \in {x \in rows : ~x.is_delisted /\ ~x.is_st}}

SyncIdle == [pc |-> "idle", op |-> "none"]

\* stock_crud.create_or_update(session, stock_data) in a session of its own
create_or_update(d) ==
    /\ sync.pc = "idle"
    /\ stocks' = upsert_stock(stocks, d, now).rows
    /\ sync' = [pc |-> "idle", op |-> "create_or_update", data |-> d,
                raised |-> ~upsert_stock(stocks, d, now).ok]
    /\ UNCHANGED <<indicators, ledger>>
    /\ UNCHANGED dailyVars
    /\ UNCHANGED schedVars

\* migrations.create_sample_stock: the list sample_stocks
sample_stocks ==
    << [code |-> "000001", name |-> "s1", is_st |-> "F"],
       [code |-> "000002", name |-> "s2", is_st |-> "F"],
       [code |-> "600000", name |-> "s3", is_st |-> "F"],
       [code |-> "600036", name |-> "s4", is_st |-> "F"] >>

\* create_sample_stock: the loop over sample_stocks from its k-th element on;
\* a create that raises ends it
RECURSIVE seed_stocks(_, _, _)
seed_stocks(rows, k, t) ==
    IF k > Len(sample_stocks) THEN [rows |-> rows, raised |-> FALSE]
    ELSE IF get_by_code(rows, sample_stocks[k].code) # NoStock
         THEN seed_stocks(rows, k + 1, t)
         ELSE IF stock_create(rows, sample_stocks[k], t).ok
              THEN seed_stocks(stock_create(rows, sample_stocks[k], t).rows, k + 1, t)
              ELSE [rows |-> rows, raised |-> TRUE]

\* migrations.create_sample_stock
create_sample_stock ==
    /\ sync.pc = "idle"
    /\ stocks' = seed_stocks(stocks, 1, now).rows
    /\ sync' = [pc |-> "idle", op |-> "create_sample_stock",
                created |-> Cardinality(seed_stocks(stocks, 1, now).rows) - Cardinality(stocks),
                raised |-> seed_stocks(stocks, 1, now).raised]
    /\ UNCHANGED <<indicators, ledger>>
    /\ UNCHANGED dailyVars
    /\ UNCHANGED schedVars

\* what is known of a sample stock afterwards: its name, its ST flag
SampleUpdates == [code : {"000001"}, name : {"n1"}, is_st : {"T", "-"}]
\* the sync units that run between two initializations
SetupTypes == {"daily_data"}

----------------------------------------------------------------------------
(* The update ledger: table data_update_logs and DataUpdateLogCRUD.  An     *)
(* entry is created by create_log; created_at is the time of the INSERT, so *)
(* the entries are in the order of created_at.                              *)
log_types == <<"stock_info", "daily_data", "technical_indicators", "market_indices">>
DataTypes == {log_types[k] : k \in 1..Len(log_types)}
Terminal == {"SUCCESS", "FAILED"}
NoTime == 0 - 1     \* a DateTime column that is NULL

\* DataUpdateLogCRUD.create_log: start_time = now, end_time is not set
create_log(rows, data_type, status, t) ==
    Append(rows, [data_type |-> data_type, start_time |-> t, end_time |-> NoTime,
                  status |-> status])

\* a query that never finds an entry
get_latest_by_type_mut(rows, data_type) == 0
\* DataUpdateLogCRUD.get_latest_by_type: order_by(desc(created_at)).first();
\* the id of the entry, 0 for None
get_latest_by_type(rows, data_type) ==
    IF \E k \in 1..Len(rows) : rows[k].data_type = data_type
    THEN CHOOSE k \in 1..Len(rows) :
            /\ rows[k].data_type = data_type
            /\ \A n \in 1..Len(rows) : rows[n].data_type = data_type => n <= k
    ELSE 0

\* init_base_data: the loop over log_types from its k-th element on
RECURSIVE seed_log_types(_, _, _)
seed_log_types(rows, k, t) ==
    IF k > Len(log_types) THEN rows
    ELSE seed_log_types(IF get_latest_by_type(rows, log_types[k]) = 0
                        THEN create_log(rows, log_types[k], "SUCCESS", t)
                        ELSE rows,
                        k + 1, t)

\* migrations.init_base_data (called by init_database)
init_base_data ==
    /\ sync.pc = "idle"
    /\ ledger' = seed_log_types(ledger, 1, now)
    /\ sync' = [pc |-> "idle", op |-> "init_base_data",
                created |-> Len(seed_log_types(ledger, 1, now)) - Len(ledger)]
    /\ UNCHANGED <<stocks, indicators>>
    /\ UNCHANGED dailyVars
    /\ UNCHANGED schedVars

\* the entries a sync unit has created: they are RUNNING or have been completed
Begun(e) == e.status = "RUNNING" \/ e.end_time # NoTime

\* Update Ledger begin(data_type): a sync unit starts
begin(data_type) ==
    /\ sync.pc = "idle"
    /\ Cardinality({k \in 1..Len(ledger) : Begun(ledger[k])}) < MaxUnits
    /\ ledger' = create_log(ledger, data_type, "RUNNING", now)
    /\ sync' = [pc |-> "idle", op |-> "begin", ret |-> Len(ledger) + 1]
    /\ UNCHANGED <<stocks, indicators>>
    /\ UNCHANGED dailyVars
    /\ UNCHANGED schedVars

\* Update Ledger complete(ledger_id, status): the sync unit that holds
\* ledger_id ends
complete(ledger_id, status) ==
    /\ sync.pc = "idle"
    /\ ledger_id \in 1..Len(ledger)
    /\ ledger[ledger_id].status = "RUNNING"
    /\ ledger' = [ledger EXCEPT ![ledger_id].status = status,
                                ![ledger_id].end_time = now]
    /\ sync' = [pc |-> "idle", op |-> "complete"]
    /\ UNCHANGED <<stocks, indicators>>
    /\ UNCHANGED dailyVars
    /\ UNCHANGED schedVars

\* Update Ledger latest(data_type): update_log_crud.get_latest_by_type
latest(data_type) ==
    /\ sync.pc = "idle"
    /\ sync' = [pc |-> "idle", op |-> "latest", data_type |-> data_type,
                ret |-> get_latest_by_type(ledger, data_type)]
    /\ UNCHANGED <<stocks, indicators, ledger>>
    /\ UNCHANGED dailyVars
    /\ UNCHANGED schedVars

----------------------------------------------------------------------------
(* The Sync Orchestrator (data/sync.py): full_sync and sync_daily_data.     *)
(* Every operation returns a result dict and lets no exception out.         *)
\* the symbol universes the external client may return: both codes, each ST or not
Universes == {{[code |-> "c1", name |-> "n1", is_st |-> a],
               [code |-> "c2", name |-> "n2", is_st |-> b]} : a, b \in {"T", "F"}}
\* what the fetch of the symbol list gives
ListFetches == {[ok |-> FALSE, list |-> {}]} \cup {[ok |-> TRUE, list |-> u] : u \in Universes}

\* create_or_update for every symbol of the list
RECURSIVE upsert_all(_, _, _)
upsert_all(rows, list, t) ==
    IF list = {} THEN rows
    ELSE LET d == CHOOSE x \in list : TRUE
         IN  upsert_all(upsert_stock(rows, d, t).rows, list \ {d}, t)

\* the (stock_code, trade_date) of the bar of the day of a symbol
KeyOf(code) == IF code = "c1" THEN "k1" ELSE "k2"
\* what the fetch of the bars of one symbol gives: nothing (the fetch fails),
\* or a record, which the store rejects when it is not valid
BarFetches(code) ==
    {[ok |-> FALSE, bar |-> [key |-> KeyOf(code), val |-> 1, valid |-> FALSE]]}
    \cup {[ok |-> TRUE, bar |-> b] : b \in {x \in Records : x.key = KeyOf(code)}}

\* batch_upsert of the one bar of a symbol in a session scope of its own
upsert_bar(rows, id, d) ==
    IF get_by_stock_and_date(rows, d.key) # 0
    THEN update(rows, get_by_stock_and_date(rows, d.key), d)
    ELSE create(rows, id, d)

\* a full_sync that stops at the first stage that fails
NextStage_mut(op, stage, ok) ==
    IF op # "full_sync" \/ ~ok THEN "idle"
    ELSE IF stage = "stock_list" THEN "daily_data"
    ELSE IF stage = "daily_data" THEN "indicators"
    ELSE "idle"
\* where an operation goes when a stage has ended: full_sync runs its three
\* stages in order whatever their outcomes, a single sync ends
NextStage(op, stage, ok) ==
    IF op # "full_sync" THEN "idle"
    ELSE IF stage = "stock_list" THEN "daily_data"
    ELSE IF stage = "daily_data" THEN "indicators"
    ELSE "idle"

NewSync(op, pc) ==
    [pc |-> pc, op |-> op, outcomes |-> << >>, todo |-> {},
     total_stocks |-> 0, success_count |-> 0, error_count |-> 0]
StageEnds(sy, stage, ok) ==
    [sy EXCEPT !.pc = NextStage(sy.op, stage, ok),
               !.outcomes = Append(@, [stage |-> stage, success |-> ok])]

\* data_sync_manager.full_sync() is called
full_sync ==
    /\ sync.pc = "idle"
    /\ sync' = NewSync("full_sync", "stock_list")
    /\ UNCHANGED <<stocks, indicators, ledger>>
    /\ UNCHANGED dailyVars
    /\ UNCHANGED schedVars

\* the stock-list stage: fetch the universe, upsert every symbol
stock_list_stage(f) ==
    /\ sync.pc = "stock_list"
    /\ stocks' = IF f.ok THEN upsert_all(stocks, f.list, now) ELSE stocks
    /\ sync' = StageEnds(sync, "stock_list", f.ok)
    /\ UNCHANGED <<indicators, ledger>>
    /\ UNCHANGED dailyVars
    /\ UNCHANGED schedVars

\* data_sync_manager.sync_daily_data(days_back) is called on its own
sync_daily_data ==
    /\ sync.pc = "idle"
    /\ sync' = NewSync("sync_daily_data", "daily_data")
    /\ UNCHANGED <<stocks, indicators, ledger>>
    /\ UNCHANGED dailyVars
    /\ UNCHANGED schedVars

\* the daily-data stage starts: the active symbols are read (ok = FALSE: the
\* store is not available and the stage ends as failed)
daily_stage_begins(ok) ==
    /\ sync.pc = "daily_data"
    /\ sync' = IF ok
               THEN [sync EXCEPT !.pc = "symbols",
                                 !.todo = get_active_stocks(stocks),
                                 !.total_stocks = Cardinality(get_active_stocks(stocks)),
                                 !.success_count = 0, !.error_count = 0]
               ELSE StageEnds(sync, "daily_data", FALSE)
    /\ UNCHANGED <<stocks, indicators, ledger>>
    /\ UNCHANGED dailyVars
    /\ UNCHANGED schedVars

\* a symbol that failed ends the batch
AfterSymbol_mut(todo, code, ok) == IF ok THEN todo \ {code} ELSE {}
\* the symbols left once one symbol has been attempted
AfterSymbol(todo, code, ok) == todo \ {code}

\* one symbol of the batch: fetch its bars and upsert them
sync_symbol(code, f) ==
    /\ sync.pc = "symbols"
    /\ code \in sync.todo
    /\ LET done == upsert_bar(daily, next_id, f.bar)
           ok == f.ok /\ done.ok
       IN  /\ daily' = IF ok THEN done.rows ELSE daily
           /\ next_id' = IF ok /\ Cardinality(done.rows) > Cardinality(daily)
                         THEN next_id + 1 ELSE next_id
           /\ sync' = [sync EXCEPT !.todo = AfterSymbol(@, code, ok),
                                   !.success_count = IF ok THEN @ + 1 ELSE @,
                                   !.error_count = IF ok THEN @ ELSE @ + 1]
    /\ UNCHANGED <<stocks, indicators, ledger, ws, sess, logs>>
    /\ UNCHANGED schedVars

\* every symbol has been attempted: the stage returns its counts
daily_stage_ends ==
    /\ sync.pc = "symbols"
    /\ sync.todo = {}
    /\ sync' = StageEnds(sync, "daily_data", TRUE)
    /\ UNCHANGED <<stocks, indicators, ledger>>
    /\ UNCHANGED dailyVars
    /\ UNCHANGED schedVars

\* Table technical_indicators has an autoincrement id and no unique
\* constraint: BaseCRUD.create inserts whatever it is given
IndTypes == {"MA", "RSI"}
indicator_create(rows, p) ==
    rows \cup {[id |-> 1 + Cardinality(rows), stock_code |-> p.stock_code,
                indicator_type |-> p.indicator_type, value |-> p.value]}
\* BaseCRUD.update of the row of that id
indicator_update(rows, id, p) ==
    {IF r.id = id THEN [r EXCEPT !.value = p.value] ELSE r : r \in rows}

\* the Indicator Engine: the points of a symbol over the window, a pure
\* function of its price history (none without history)
Compute(bars, code) ==
    {[stock_code |-> code, indicator_type |-> ty,
      value |-> IF ty = "MA" THEN b.val ELSE 100 - b.val]
        : ty \in IndTypes, b \in {r \in bars : r.key = KeyOf(code)}}

\* a lookup by natural key that never finds the row
get_indicator_mut(rows, p) == 0
\* the existence check by natural key: the id of the row, 0 for none
get_indicator(rows, p) ==
    IF \E r \in rows : r.stock_code = p.stock_code /\ r.indicator_type = p.indicator_type
    THEN (CHOOSE r \in rows : r.stock_code = p.stock_code
                              /\ r.indicator_type = p.indicator_type).id
    ELSE 0

\* upsert of the points: update in place or insert
RECURSIVE upsert_points(_, _)
upsert_points(rows, points) ==
    IF points = {} THEN rows
    ELSE LET p == CHOOSE x \in points : TRUE
             id == get_indicator(rows, p)
         IN  upsert_points(IF id # 0 THEN indicator_update(rows, id, p)
                           ELSE indicator_create(rows, p),
                           points \ {p})

\* indicators of every symbol of a set recomputed and stored
RECURSIVE recompute(_, _, _)
recompute(rows, bars, codes) ==
    IF codes = {} THEN rows
    ELSE LET c == CHOOSE x \in codes : TRUE
         IN  recompute(upsert_points(rows, Compute(bars, c)), bars, codes \ {c})

\* indicator_calculator.calculate_indicators_for_stock(code, ...) on its own
calculate_indicators_for_stock(code) ==
    /\ sync.pc = "idle"
    /\ indicators' = recompute(indicators, daily, {code})
    /\ sync' = [pc |-> "idle", op |-> "calculate_indicators_for_stock", code |-> code,
                success |-> Compute(daily, code) # {}]
    /\ UNCHANGED <<stocks, ledger>>
    /\ UNCHANGED dailyVars
    /\ UNCHANGED schedVars

\* the indicator stage: the indicators of every active symbol are recomputed
indicator_stage(ok) ==
    /\ sync.pc = "indicators"
    /\ indicators' = IF ok THEN recompute(indicators, daily, get_active_stocks(stocks))
                     ELSE indicators
    /\ sync' = StageEnds(sync, "indicators", ok)
    /\ UNCHANGED <<stocks, ledger>>
    /\ UNCHANGED dailyVars
    /\ UNCHANGED schedVars


----------------------------------------------------------------------------
(* The wrappers of TaskScheduler at work: what their bodies do to the store *)
(* and to the directory logs/.  The wrapper is the one run_task_now has     *)
(* called; the scheduled jobs run the same functions.                       *)
DaysToKeep == 30
\* datetime.now() - timedelta(days=days_to_keep), in slots
cutoff_date(t) == t - DaysToKeep * SlotsPerDay
\* the files of logs/: st_mtime in slots; one expired log, one a slot short
\* of it, one of today, and an expired file that is no log
LogFiles ==
    {[name |-> "a", suffix |-> ".log", mtime |-> cutoff_date(StartTime) - 1],
     [name |-> "b", suffix |-> ".log", mtime |-> cutoff_date(StartTime) + 1],
     [name |-> "c", suffix |-> ".log", mtime |-> StartTime],
     [name |-> "d", suffix |-> ".txt", mtime |-> cutoff_date(StartTime) - 1]}

\* the files log_file.unlink() is called for
Expired(files, t) == {f \in files : f.suffix = ".log" /\ f.mtime < cutoff_date(t)}

\* a cleanup that does not look at the age of a log file
_cleanup_logs_mut(files, t) == {f \in files : f.suffix # ".log"}
\* TaskScheduler._cleanup_logs: the files that are left
_cleanup_logs(files, t) == files \ Expired(files, t)

\* the operations of data_sync_manager the wrappers call
SyncOps == {"full_sync", "sync_stock_list", "sync_technical_indicators"}
\* the stage such an operation starts with
FirstStage(op) == IF op = "sync_technical_indicators" THEN "indicators" ELSE "stock_list"

\* result = data_sync_manager.<operation>(): the operation begins
job_invokes ==
    /\ man.pc = "job"
    /\ man.call \in SyncOps
    /\ sync.pc = "idle"
    /\ man' = [man EXCEPT !.pc = "wait"]
    /\ sync' = NewSync(man.call, FirstStage(man.call))
    /\ UNCHANGED <<now, running, scheduler_thread, jobs, thr, mainpc, warned, result>>
    /\ UNCHANGED appVars
    /\ UNCHANGED dailyVars
    /\ UNCHANGED <<stocks, indicators, ledger>>

\* self._cleanup_logs(days_to_keep=30); ok = FALSE: stat or unlink raises at
\* some file, the handler of _cleanup_logs logs it and the rest is left
job_cleanup(ok, left) ==
    /\ man.pc = "job"
    /\ man.call = "cleanup_logs"
    /\ left \subseteq Expired(logs, now)
    /\ ok => left = {}
    /\ logs' = _cleanup_logs(logs, now) \cup left
    /\ man' = [man EXCEPT !.pc = "wait"]
    /\ UNCHANGED <<now, running, scheduler_thread, jobs, thr, mainpc, warned, result>>
    /\ UNCHANGED appVars
    /\ UNCHANGED <<daily, next_id, ws, sess>>
    /\ UNCHANGED dataVars

\* the wrapper logs what its body returned, or the exception, and returns
job_ends(env) ==
    /\ \/ man.pc = "wait" /\ sync.pc = "idle"
       \/ man.pc = "job" /\ man.call \notin SyncOps \cup {"cleanup_logs"}
    /\ result' = TaskResult(man.task, env, man.call)
    /\ man' = ManIdle
    /\ UNCHANGED <<now, running, scheduler_thread, jobs, thr, mainpc, warned>>
    /\ UNCHANGED appVars
    /\ UNCHANGED storeVars

----------------------------------------------------------------------------
(* Specifications *)
InitStore ==
    /\ daily = {}
    /\ next_id = 1
    /\ ws = [w \in Writers |-> ClosedSession]
    /\ sess = NoSession
    /\ logs = LogFiles
    /\ stocks = {}
    /\ indicators = {}
    /\ ledger = << >>
    /\ sync = SyncIdle

Init == InitSched /\ InitStore

\* start/stop, the dispatch loop and the clock
NextLoop ==
    \/ start
    \/ stop
    \/ stop_joined
    \/ stop_timeout
    \/ \E i \in Threads : loop_tick(i)
    \/ \E i \in Threads : loop_job_returns(i)
    \/ \E i \in Threads : loop_job_raises(i)
    \/ \E i \in Threads : loop_err_wake(i)
    \/ Tick

\* ... and manual runs beside them
NextManual ==
    \/ \E name \in ManualNames : run_task_now(name)
    \/ \E env \in Envs : run_task_done(env)

\* the scheduler started once, with manual runs of every name beside its loop
start_once ==
    /\ thr = << >>
    /\ start

NextOnce ==
    \/ start_once
    \/ stop
    \/ stop_joined
    \/ stop_timeout
    \/ \E i \in Threads : loop_tick(i)
    \/ \E i \in Threads : loop_job_returns(i)
    \/ \E i \in Threads : loop_job_raises(i)
    \/ \E i \in Threads : loop_err_wake(i)
    \/ Tick
    \/ \E name \in TaskNames \cup OtherNames : run_task_now(name)
    \/ \E env \in Envs : run_task_done(env)

\* one writer, any data_list
NextStore1 ==
    \/ \E dl \in DataLists : session_scope(1, dl)
    \/ upsert_check(1)
    \/ upsert_write(1)

\* two writers, each with a session of its own
NextStore ==
    \/ \E w \in Writers : \E dl \in OwnLists(w) : session_scope(w, dl)
    \/ \E w \in Writers : upsert_check(w)
    \/ \E w \in Writers : upsert_write(w)

\* the process of command "start": the scheduler is driven by Application only
NextApp ==
    \/ app_start
    \/ app_scheduler_start
    \/ app_enter_loop
    \/ app_signal
    \/ \E registered \in BOOLEAN : app_scheduler_start_raises(registered)
    \/ app_leave_loop
    \/ \E exc \in BOOLEAN : app_loop_raises(exc)
    \/ app_scheduler_stop
    \/ app_scheduler_stop_raises
    \/ stop_joined
    \/ stop_timeout
    \/ app_exit
    \/ \E i \in Threads : loop_tick(i)
    \/ \E i \in Threads : loop_job_returns(i)
    \/ \E i \in Threads : loop_job_raises(i)
    \/ \E i \in Threads : loop_err_wake(i)
    \/ Tick

\* scripts and one-shot commands: any time of the week, all task names
AnySlots == 0..(MaxWeeks * SlotsPerWeek - 1)
InitAnyTime ==
    /\ now \in AnySlots
    /\ running = FALSE
    /\ scheduler_thread = 0
    /\ jobs = << >>
    /\ thr = << >>
    /\ mainpc = "idle"
    /\ man = ManIdle
    /\ warned = "none"
    /\ result = NoResult
    /\ app = AppInit
    /\ probe = NoProbe
    /\ InitStore

NextScript ==
    \/ setup_only
    \/ \E ok \in BOOLEAN : check_trading_day(ok)
    \/ get_next_runs
    \/ \E name \in TaskNames \cup OtherNames : run_task_now(name)
    \/ \E env \in Envs : run_task_done(env)

InitS == Init /\ now = StartTime

Next == NextLoop \/ NextManual

Spec == Init /\ [][Next]_vars

LoopSpec == Init /\ [][NextLoop]_vars

OnceSpec == Init /\ [][NextOnce]_vars

\* the caller of stop() is not suspended for ever: a join whose thread has
\* ended returns, one whose timeout has expired returns, and the joined thread,
\* when it is not inside a job body, gets to its while test
join_progress ==
    \/ stop_joined
    \/ stop_timeout
    \/ mainpc = "join" /\ Alive(scheduler_thread) /\ loop_tick(scheduler_thread)

LoopFairness == WF_vars(join_progress)

FairLoopSpec == Init /\ [][NextLoop]_vars /\ LoopFairness

AppSpec == Init /\ [][NextApp]_vars

\* the main thread is an OS thread: time.sleep(1) returns and the loop
\* condition is looked at again, and _shutdown, once entered, calls stop()
main_step ==
    /\ app.pc \in {"main", "shutdown"}
    /\ app_leave_loop \/ app_scheduler_stop

MainFairness == WF_vars(main_step)

FairAppSpec == Init /\ [][NextApp]_vars /\ MainFairness

\* every dispatch-loop thread is an OS thread: once the flag is cleared, a
\* thread that can take a step takes one, and a job body that is running ends
thread_step ==
    /\ ~running
    /\ \E i \in Threads :
          loop_tick(i) \/ loop_job_returns(i) \/ loop_job_raises(i) \/ loop_err_wake(i)
ThreadFairness == WF_vars(thread_step)
FairThreadSpec == Init /\ [][NextLoop]_vars /\ ThreadFairness

ScriptSpec == InitAnyTime /\ [][NextScript]_vars

\* symbol metadata upserts, one after the other, while the clock advances
NextStock ==
    \/ \E d \in StockData : create_or_update(d)
    \/ Tick

StockSpec == InitS /\ [][NextStock]_vars

\* the update ledger: seeding, sync units and status queries
NextLedger ==
    \/ init_base_data
    \/ \E dt \in DataTypes : begin(dt)
    \/ \E id \in 1..(Len(log_types) + MaxUnits), st \in Terminal : complete(id, st)
    \/ \E dt \in DataTypes : latest(dt)
    \/ Tick

LedgerSpec == InitS /\ [][NextLedger]_vars

\* the Sync Orchestrator, one operation after the other
NextSync ==
    \/ full_sync
    \/ \E f \in ListFetches : stock_list_stage(f)
    \/ sync_daily_data
    \/ \E ok \in BOOLEAN : daily_stage_begins(ok)
    \/ \E c \in Codes : \E f \in BarFetches(c) : sync_symbol(c, f)
    \/ daily_stage_ends
    \/ \E ok \in BOOLEAN : indicator_stage(ok)
    \/ \E c \in Codes : calculate_indicators_for_stock(c)

SyncSpec == InitS /\ [][NextSync]_vars

\* the process of command "status"
NextStatus == \E st \in SyncStatuses, log_ok \in BOOLEAN : show_status(st, log_ok)

StatusSpec == Init /\ [][NextStatus]_vars

\* the commands "run" and "status": one of them, once, in a fresh process
NextCommand ==
    \/ \E name \in OnceNames : run_once(name)
    \/ once_call
    \/ \E env \in Envs : once_done(env)
    \/ once_exit
    \/ \E st \in SyncStatuses, log_ok \in BOOLEAN : show_status(st, log_ok)

CommandSpec == Init /\ [][NextCommand]_vars

\* scopes of one session each, one after the other
NextScope ==
    \/ \E via \in ScopeUsers : scope_enter(via)
    \/ \E v \in Vals : scope_write(v)
    \/ \E outcome \in BlockOutcomes : scope_block_ends(outcome)
    \/ \E ok \in BOOLEAN : scope_commit(ok)
    \/ scope_rollback
    \/ scope_close

ScopeSpec == InitS /\ [][NextScope]_vars

\* reports and mails sent, with any configuration
NextMail ==
    \/ \E cfg \in EmailConfigs, arg \in RecipientArgs, gen_ok \in BOOLEAN,
          render_ok \in BOOLEAN, smtp \in SmtpOutcomes :
              report_sent(cfg, arg, gen_ok, render_ok, smtp)
    \/ \E cfg \in EmailConfigs, arg \in RecipientArgs, smtp \in SmtpOutcomes :
              email_sent(cfg, arg, smtp)

MailSpec == InitS /\ [][NextMail]_vars

\* database initialization, once or again, between sync units and upserts
NextSetup ==
    \/ init_base_data
    \/ create_sample_stock
    \/ \E dt \in SetupTypes : begin(dt)
    \/ \E d \in SampleUpdates : create_or_update(d)
    \/ Tick

SetupSpec == InitS /\ [][NextSetup]_vars

\* the wrappers, one at a time, with the Sync Orchestrator they call
NextJobData ==
    \/ \E name \in TaskNames : run_task_now(name)
    \/ job_invokes
    \/ \E ok \in BOOLEAN : \E left \in SUBSET LogFiles : job_cleanup(ok, left)
    \/ \E env \in Envs : job_ends(env)
    \/ \E f \in ListFetches : stock_list_stage(f)
    \/ \E ok \in BOOLEAN : daily_stage_begins(ok)
    \/ \E c \in Codes : \E f \in BarFetches(c) : sync_symbol(c, f)
    \/ daily_stage_ends
    \/ \E ok \in BOOLEAN : indicator_stage(ok)

JobDataSpec == InitS /\ [][NextJobData]_vars

StoreSpec1 == InitS /\ [][NextStore1]_vars

StoreSpec == InitS /\ [][NextStore]_vars

----------------------------------------------------------------------------
(* Properties *)
Row(x) == [id |-> x.id, key |-> x.key, val |-> x.val]
InJob(i) == thr[i].pc = "job"

\* C1: run_task_now("health_check") that runs while the store is unusable
\* returns success = FALSE with a non-empty error
C1_HealthCheckReportsFailure ==
    [][\A env \in Envs :
          (run_task_done(env) /\ man.task = "health_check" /\ ~env.store_ok)
             => (result'.success = FALSE /\ result'.error # "")]_vars

\* C2: no two executions of the same job are in progress at the same time
C2_NoDuplicateConcurrentRuns ==
    /\ \A i, k \in Threads :
          (i # k /\ InJob(i) /\ InJob(k)) => jobs[thr[i].cur].func # jobs[thr[k].cur].func
    /\ \A i \in Threads :
          (InJob(i) /\ man.pc = "job") => jobs[thr[i].cur].func # man.task

\* C3: once stop() has returned, no dispatch-loop thread starts a job
Fires(i) == thr'[i].pc = "job" /\ (thr[i].pc # "job" \/ loop_job_returns(i))
C3_NoFiringAfterStop ==
    [][(~running /\ mainpc = "idle") => \A i \in Threads : ~Fires(i)]_vars

\* C4: while Running, every trigger of the table is registered exactly once
C4_EveryTriggerRegisteredOnce ==
    running => \A k \in 1..Len(setup_schedules) :
                  Cardinality({i \in 1..Len(jobs) : jobs[i].trig = k}) = 1

\* C5: a single writer never leaves two rows of one key, and an upsert of a key
\* that exists changes that row in place and keeps the row count
AtMostOneRowPerKey == \A r1, r2 \in daily : r1.key = r2.key => r1 = r2
UpsertOfExistingKey ==
    LET d == Head(ws[1].rest)
    IN  (upsert_write(1) /\ ~uq_stock_date(daily, d.key))
           => /\ Cardinality(daily') = Cardinality(daily)
              /\ d.valid => \E r \in daily :
                               /\ r.key = d.key
                               /\ daily' = (daily \ {r}) \cup {[r EXCEPT !.val = d.val]}
C5_SingleWriterUpsert == []AtMostOneRowPerKey /\ [][UpsertOfExistingKey]_vars
C5_Witness ==
    /\ \E x \in ws[1].written : x.op = "update" /\ Row(x) \in daily
    /\ Cardinality(daily) = 1

\* C6: a batch whose write raised leaves none of its rows persisted, a batch
\* that did not raise leaves all of them
C6_BatchAtomic ==
    /\ ws[1].outcome = "raised" => \A x \in ws[1].written : Row(x) \notin daily
    /\ ws[1].outcome = "committed" => \A x \in ws[1].written : Row(x) \in daily

\* C7: two writers upserting concurrently both complete without error, and
\* every row holds the data of one of them
C7_ConcurrentUpsertsSucceed ==
    /\ \A w \in Writers : ws[w].outcome # "raised"
    /\ \A r \in daily : r.val \in Writers

\* C8: a thread of the dispatch loop ends only at the loop test, with the
\* running flag false, and after the handler's sleep it goes back to the loop
C8_LoopSurvivesExceptions ==
    [][\A i \in Threads :
          /\ (thr[i].pc # "dead" /\ thr'[i].pc = "dead")
                => (thr[i].pc = "loop" /\ ~running)
          /\ (thr[i].pc = "errsleep" /\ thr'[i] # thr[i]) => thr'[i].pc = "loop"]_vars
C8_Witness == \E i \in Threads : thr[i].pc = "errsleep" /\ running

\* C9: start() while Running changes neither the flag, the registered jobs,
\* the threads nor the thread reference
C9_StartWhileRunningIsNoop ==
    [][(start /\ running)
          => UNCHANGED <<running, jobs, thr, scheduler_thread, mainpc>>]_vars
C9_Witness == warned = "start" /\ running /\ Len(jobs) = Len(setup_schedules)

\* C10: the flag changes only Stopped -> Running by start() and Running ->
\* Stopped by stop(); stop() while Stopped changes nothing
C10_Lifecycle ==
    [][/\ (~running /\ running') => start
       /\ (running /\ ~running') => stop
       /\ (stop /\ running) => ~running'
       /\ (stop /\ ~running)
             => UNCHANGED <<running, jobs, thr, scheduler_thread, mainpc>>]_vars
C10_Witness == warned = "stop" /\ ~running /\ Alive(scheduler_thread)

\* C11: a job that is in flight is never cancelled: its execution ends only by
\* the wrapper returning or raising, also when the application shuts down
\* after a termination signal
C11_InFlightJobRunsToCompletion ==
    [][\A i \in Threads :
          InJob(i) => (thr'[i] = thr[i] \/ loop_job_returns(i) \/ loop_job_raises(i))]_vars

\* C12: stop() always returns, also when the job in flight never finishes
C12_StopReturns == (mainpc = "join") ~> (mainpc = "idle")

\* stop() has returned while the job it waited for is still in flight
C12_Witness ==
    /\ mainpc = "idle"
    /\ ~running
    /\ Alive(scheduler_thread)
    /\ InJob(scheduler_thread)

\* Saturday and Sunday
NonTradingDay(t) == weekday(t) \in {5, 6}
\* what the gate asks of a wrapper f entered at time t that invokes call
GateHolds(f, t, call) ==
    /\ (f \in {"daily_data_sync", "daily_report", "technical_indicators"} /\ NonTradingDay(t))
          => /\ call = "none"
             /\ \A env \in Envs : env.log_ok => ~TaskRaises(f, env)
    /\ f \in {"stock_list_update", "data_cleanup", "health_check"} => call # "none"
\* C13: on a Saturday or Sunday the daily data sync, the daily report and the
\* technical indicator job, fired by the loop or run by run_task_now, return
\* at their gate: they invoke nothing and (their entry logging working) do
\* not raise; the stock list update, the data cleanup and the health check
\* invoke their body on every day
C13_NonTradingDayGate ==
    [][/\ \A i \in Threads :
             Fires(i) => GateHolds(jobs[thr'[i].cur].func, now, thr'[i].call)
       /\ (man.pc = "idle" /\ man'.pc = "job") => GateHolds(man'.task, now, man'.call)
       /\ \A f \in TaskNames : GateHolds(f, now, Invoke(f, now))]_vars

\* a Saturday on which the loop has fired the technical indicator job and a
\* manual run has entered the daily data sync: both have returned at the gate
C13_Witness ==
    /\ NonTradingDay(now)
    /\ \E i \in Threads : /\ InJob(i)
                           /\ jobs[thr[i].cur].func = "technical_indicators"
                           /\ thr[i].call = "none"
    /\ man.pc = "job" /\ man.task = "daily_data_sync" /\ man.call = "none"

\* C14: the trading-day check returns FALSE on every Saturday and Sunday and
\* TRUE from Monday to Friday; it never raises: an evaluation that fails
\* returns FALSE
C14_TradingDayCheck ==
    [][\A ok \in BOOLEAN :
          check_trading_day(ok) =>
             /\ probe'.ret \in BOOLEAN
             /\ NonTradingDay(now) => probe'.ret = FALSE
             /\ (~NonTradingDay(now) /\ ok) => probe'.ret = TRUE
             /\ ~ok => probe'.ret = FALSE]_vars

\* the check has answered FALSE on a Sunday
C14_Witness ==
    /\ probe.op = "is_trading_day"
    /\ probe.ok
    /\ weekday(now) = DaysPerWeek - 1
    /\ probe.ret = FALSE

\* Monday to Friday, and every day of the week
Weekdays == 0..4
AllDays == 0..(DaysPerWeek - 1)
\* the first time after t that falls on one of the week's points P
NextAfter(t, P) ==
    LET dist(p) == ((p - (t % SlotsPerWeek) - 1 + SlotsPerWeek) % SlotsPerWeek) + 1
        best == CHOOSE p \in P : \A q \in P : dist(p) <= dist(q)
    IN  t + dist(best)
\* the next runs the table gives function f when it is registered at time t
TableNextRuns(f, t) ==
    CASE f = "daily_data_sync" -> {NextAfter(t, {Slot(d, 15, 30)}) : d \in Weekdays}
      [] f = "daily_report" -> {NextAfter(t, {Slot(d, 16, 0)}) : d \in Weekdays}
      [] f = "stock_list_update" -> {NextAfter(t, {Slot(DaysPerWeek - 1, 20, 0)})}
      [] f = "technical_indicators" ->
            {NextAfter(t, {Slot(d, h, 0) : d \in AllDays}) : h \in 9..15}
      [] f = "data_cleanup" -> {NextAfter(t, {Slot(d, 2, 0) : d \in AllDays})}
      [] OTHER -> {t + 1}
\* the registered jobs of function f
JobsOf(js, f) == {i \in 1..Len(js) : js[i].func = f}
\* C15: the registered triggers are exactly those of the trigger table: daily
\* data sync at 15:30 and daily report at 16:00 on each of Monday to Friday,
\* stock list update on Sunday 20:00, technical indicators at every full hour
\* from 09:00 to 15:00 of every day, data cleanup at 02:00 of every day,
\* health check every 30 minutes; a job is due at no other time
C15_TriggerTable ==
    [][setup_only =>
          /\ \A i \in 1..Len(jobs') : jobs'[i].func \in TaskNames
          /\ \A f \in TaskNames :
                /\ {jobs'[i].next_run : i \in JobsOf(jobs', f)} = TableNextRuns(f, now)
                /\ Cardinality(JobsOf(jobs', f)) = Cardinality(TableNextRuns(f, now))
                /\ \A i \in JobsOf(jobs', f) : ~should_run(jobs'[i], now)]_vars

\* the triggers registered on a Saturday: the Monday data sync is next due on
\* the Monday that follows, at 15:30
C15_Witness ==
    /\ jobs # << >>
    /\ weekday(now) = 5
    /\ jobs[1].func = "daily_data_sync"
    /\ jobs[1].next_run = now - (now % SlotsPerDay) + 2 * SlotsPerDay + At(15, 30)

\* the jobs a thread has collected in its tick
TickJobs(t) == {t.cur} \cup {t.queue[k] : k \in 1..Len(t.queue)}
\* C16: while the scheduler runs, a job fires exactly once for each of its
\* trigger points that passes, never twice for the same trigger point: the
\* jobs one tick of the loop collects and fires serve pairwise different
\* trigger points
C16_FiresOncePerTriggerPoint ==
    [][\A i \in Threads :
          (thr[i].pc = "loop" /\ thr'[i].pc = "job") =>
             \A a, b \in TickJobs(thr'[i]) :
                a # b => Point(jobs[a]) # Point(jobs[b])]_vars

\* C17: while one job body is running the loop starts no other job, and a job
\* that is due stays due until the loop has run it
C17_SynchronousFiring ==
    [][/\ \A i \in Threads :
             Fires(i) => \A k \in Threads : k # i => ~InJob(k)
       /\ \A j \in 1..Len(jobs) :
             should_run(jobs[j], now) =>
                \/ should_run(jobs'[j], now')
                \/ \E i \in Threads : loop_job_returns(i) /\ thr[i].cur = j]_vars

\* the earliest next run among the jobs of function f
EarliestNextRun(js, f) ==
    CHOOSE t \in {js[i].next_run : i \in JobsOf(js, f)} :
        \A i \in JobsOf(js, f) : t <= js[i].next_run
\* C18: get_next_runs() returns one entry for every registered job, the time
\* of an entry is the earliest next run among the triggers registered for that
\* job; it changes no scheduler state and fires no job
C18_NextRunsEarliest ==
    [][get_next_runs =>
          /\ DOMAIN probe'.ret = {jobs[i].func : i \in 1..Len(jobs)}
          /\ \A f \in DOMAIN probe'.ret : probe'.ret[f] = EarliestNextRun(jobs, f)
          /\ UNCHANGED <<running, scheduler_thread, jobs, thr, man>>]_vars

\* C19: run_task_now(name) executes a job iff name is one of the six task
\* names, and then the job of that name, once; for any other name it executes
\* nothing and returns success = FALSE with an error
C19_RunTaskNow ==
    [][/\ \A name \in TaskNames \cup OtherNames :
             run_task_now(name) =>
                IF name \in {"daily_data_sync", "daily_report", "stock_list_update",
                             "technical_indicators", "data_cleanup", "health_check"}
                THEN man' = [pc |-> "job", task |-> name, call |-> man'.call]
                ELSE /\ man' = man
                     /\ result'.success = FALSE
                     /\ result'.error # ""
       /\ man.pc = "job" => (man' = man \/ man' = ManIdle)]_vars

\* an unknown name has been refused and the data cleanup is being executed
C19_Witness ==
    /\ result.success = FALSE
    /\ result.error = "unknown task"
    /\ man.pc = "job"
    /\ man.task = "data_cleanup"

\* C20: a manual run leaves the lifecycle state, the registered jobs and every
\* job's next run unchanged
C20_ManualRunFrame ==
    [][(man' # man \/ result' # result) =>
          UNCHANGED <<running, scheduler_thread, jobs, thr, mainpc>>]_vars

\* a manual run has ended while the scheduler runs and a registered job is due
C20_Witness ==
    /\ result.message = "done"
    /\ running
    /\ \E j \in 1..Len(jobs) : should_run(jobs[j], now)

----------------------------------------------------------------------------
\* C21: none of the six job wrappers lets an exception of its job body reach
\* its caller: while logging works, a wrapper whose body raises returns
\* normally, having logged the failure, both when the dispatch loop runs it
\* and when run_task_now runs it.
C21_WrappersContainBodyFailures ==
    [][/\ \A i \in Threads :
            loop_job_raises(i) =>
                \A env \in Envs :
                    TaskRaises(jobs[thr[i].cur].func, env) => ~env.log_ok
       /\ \A env \in Envs :
            (env.log_ok /\ run_task_done(env)) =>
                /\ result'.error # "exception"
                /\ (man.call # "none" /\ ~env.store_ok) => result'.logged]_vars
C21_Witness ==
    /\ result.logged
    /\ result.error = ""
    /\ result.message = "done"

----------------------------------------------------------------------------
\* C22: every scheduled job goes Idle -> Due -> Running -> Idle: the dispatch
\* loop enters a job only when the job is due, and every firing that returns
\* leaves the job not due, with a next trigger time strictly later than the
\* trigger point just fired.
C22_JobLifecycle ==
    [][\A i \in Threads :
          /\ Fires(i) => should_run(jobs[thr'[i].cur], now)
          /\ loop_job_returns(i) =>
                /\ jobs'[thr[i].cur].next_run > jobs[thr[i].cur].next_run
                /\ ~should_run(jobs'[thr[i].cur], now)]_vars

----------------------------------------------------------------------------
\* the stored fields of the rows other than the update timestamp
StockFields(rows) ==
    {[code |-> r.code, name |-> r.name, is_st |-> r.is_st,
      is_delisted |-> r.is_delisted, created_at |-> r.created_at] : r \in rows}
\* the rows of a code
RowsOf(rows, code) == {r \in rows : r.code = code}
\* C29: create_or_update creates a Stock row when no row has the code and
\* otherwise updates the row of that code with the fields given; the table
\* never holds two rows of one code; applying the same upsert once more, at
\* any later time, leaves the same stored fields apart from updated_at.
C29_StockUpsert ==
    [][\A d \in StockData :
          create_or_update(d) =>
             LET old == RowsOf(stocks, d.code)
                 new == RowsOf(stocks', d.code)
             IN  /\ \A r1, r2 \in stocks' : r1.code = r2.code => r1 = r2
                 /\ {r \in stocks' : r.code # d.code} = {r \in stocks : r.code # d.code}
                 /\ (old = {} /\ d.name # "-") =>
                        /\ new # {}
                        /\ \A r \in new : r.name = d.name /\ r.is_st = (d.is_st = "T")
                 /\ \A o \in old :
                        /\ new # {}
                        /\ \A r \in new :
                              /\ r.created_at = o.created_at
                              /\ r.name = (IF d.name = "-" THEN o.name ELSE d.name)
                              /\ r.is_st = (IF d.is_st = "-" THEN o.is_st ELSE d.is_st = "T")
                 /\ \A t \in now..(now + 1) :
                        StockFields(upsert_stock(stocks', d, t).rows) = StockFields(stocks')]_vars
\* a row created at one time has been updated, by an upsert of its code, later
C29_Witness ==
    /\ sync.op = "create_or_update"
    /\ ~sync.raised
    /\ \E r \in stocks : r.code = sync.data.code /\ r.updated_at > r.created_at
    /\ Cardinality(stocks) = 2

----------------------------------------------------------------------------
\* C25: every ledger entry is created with status RUNNING and start_time set;
\* an entry changes only once, from RUNNING to SUCCESS or FAILED with
\* end_time set; so no entry with a terminal status was never RUNNING and a
\* terminal entry is never modified.
C25_LedgerLifecycle ==
    [][/\ Len(ledger') >= Len(ledger)
       /\ \A k \in (Len(ledger) + 1)..Len(ledger') :
             ledger'[k].status = "RUNNING" /\ ledger'[k].start_time # NoTime
       /\ \A k \in 1..Len(ledger) :
             ledger'[k] # ledger[k] =>
                /\ ledger[k].status = "RUNNING"
                /\ ledger'[k].status \in Terminal
                /\ ledger'[k].end_time # NoTime
                /\ ledger'[k].data_type = ledger[k].data_type
                /\ ledger'[k].start_time = ledger[k].start_time]_vars

\* C26: latest(data_type) returns none exactly when no sync unit of that data
\* type was ever begun, and otherwise the most recently created entry of that
\* type.
C26_LatestOrNone ==
    [][\A dt \in DataTypes :
          latest(dt) =>
             LET units == {k \in 1..Len(ledger) :
                              ledger[k].data_type = dt /\ Begun(ledger[k])}
             IN  /\ (sync'.ret = 0) <=> (units = {})
                 /\ sync'.ret # 0 =>
                        /\ sync'.ret \in units
                        /\ \A k \in units : k <= sync'.ret]_vars

----------------------------------------------------------------------------
StageOrder == <<"stock_list", "daily_data", "indicators">>
\* the stages that have ended when full_sync is at pc
StagesEnded(pc) ==
    CASE pc = "stock_list" -> 0
      [] pc \in {"daily_data", "symbols"} -> 1
      [] pc = "indicators" -> 2
      [] OTHER -> 3
\* C23: full_sync attempts its three stages in the order stock-list,
\* daily-data, indicators, one at a time: a stage is entered only when the
\* outcomes of all stages before it are recorded, whether they failed or not,
\* and the result holds one outcome per stage.
C23_FullSyncStages ==
    sync.op = "full_sync" =>
        /\ Len(sync.outcomes) = StagesEnded(sync.pc)
        /\ \A k \in 1..Len(sync.outcomes) : sync.outcomes[k].stage = StageOrder[k]
\* a full_sync has returned whose stock-list stage failed and whose later
\* stages were attempted: the daily-data stage has written bars of symbols
\* known from before, the indicator stage failed
C23_Witness ==
    /\ sync.op = "full_sync"
    /\ sync.pc = "idle"
    /\ Len(sync.outcomes) = 3
    /\ ~sync.outcomes[1].success
    /\ sync.outcomes[2].success
    /\ sync.success_count > 0
    /\ ~sync.outcomes[3].success

\* the symbols neither delisted nor ST
ActiveCodes == {r.code : r \in {x \in stocks : ~x.is_delisted /\ ~x.is_st}}
----------------------------------------------------------------------------
\* the natural key of an indicator row
IndKey(r) == <<r.stock_code, r.indicator_type>>
\* C30: recomputing the indicators of a symbol once more over the same
\* window leaves the same stored rows: the table never holds two rows of one
\* (symbol, trade_date, indicator_type, parameter) and the stored values are
\* the same.
C30_IndicatorIdempotence ==
    [][\A c \in Codes :
          calculate_indicators_for_stock(c) =>
             /\ \A r1, r2 \in indicators' : IndKey(r1) = IndKey(r2) => r1 = r2
             /\ recompute(indicators', daily', {c}) = indicators'
             /\ \A p \in Compute(daily, c) :
                   \E r \in indicators' : IndKey(r) = IndKey(p) /\ r.value = p.value]_vars
\* the indicators of both symbols are stored and those of one symbol have
\* just been recomputed: four rows, one for each key, with the values of the bars
C30_Witness ==
    /\ sync.op = "calculate_indicators_for_stock"
    /\ sync.success
    /\ \E r \in indicators : r.stock_code = sync.code /\ r.indicator_type = "MA" /\ r.value = 2
    /\ \E r \in indicators : r.stock_code # sync.code /\ r.indicator_type = "MA" /\ r.value = 1
    /\ Cardinality(indicators) = 4

----------------------------------------------------------------------------
\* C27: the status command always succeeds: while logging works, show_status
\* raises nothing, whatever get_sync_status returns or raises, and a data
\* type whose entry has no status is shown as UNKNOWN (NEVER when that is what
\* the entry says), with no error logged.
C27_StatusNeverRaises ==
    [][\A st \in SyncStatuses :
          show_status(st, TRUE) =>
             /\ ~probe'.raised
             /\ (~st.raises /\ st.success
                 /\ \A k \in 1..Len(st.types) : st.types[k] # "nodict") =>
                    /\ ~probe'.error_logged
                    /\ Len(probe'.status) = Len(StatusTypes)
                    /\ \A k \in 1..Len(st.types) :
                          /\ st.types[k] = "-" => probe'.status[k] = <<StatusTypes[k], "UNKNOWN">>
                          /\ st.types[k] = "NEVER" => probe'.status[k] = <<StatusTypes[k], "NEVER">>]_vars
\* show_status has returned after get_sync_status raised or gave a value it
\* cannot read
C27_Witness ==
    /\ probe.op = "show_status"
    /\ ~probe.raised
    /\ probe.error_logged

\* C28: the status command, run as a process of its own, prints a next-run
\* time for every job of the trigger table.
C28_StatusShowsNextRuns ==
    [][\A st \in SyncStatuses :
          (show_status(st, TRUE) /\ ~probe'.error_logged) =>
              DOMAIN probe'.next_runs = TaskNames]_vars

----------------------------------------------------------------------------
\* C33: at most one dispatch-loop thread is alive at any time, after any
\* sequence of start() and stop() calls
C33_OneLoopThread ==
    Cardinality({i \in Threads : Alive(i)}) <= 1

\* the dispatch-loop threads that have not ended
LiveThreads == {i \in Threads : thr[i].pc # "dead"}
\* C34: once stop() has cleared the running flag, and as long as no start()
\* sets it again, every dispatch-loop thread eventually sees the flag and
\* ends, and until then it starts no tick: the jobs it still runs are those
\* of the tick it was executing.
C34_LoopExitsAfterStop ==
    /\ [][\A i \in Threads :
             (thr[i].pc = "loop" /\ thr'[i].pc = "job") => running]_vars
    /\ (LiveThreads # {} /\ ~running) ~> (LiveThreads = {} \/ running)
\* the flag is cleared, stop() has given up waiting, and the thread is still
\* inside a job with another job of the same tick waiting
C34_Witness ==
    /\ ~running
    /\ mainpc = "idle"
    /\ \E i \in Threads : thr[i].pc = "job" /\ thr[i].queue # << >>
\* C35: Application.start() neither returns nor lets an exception out before
\* _shutdown has called the scheduler's stop(), whichever way the try block
\* was left (flag cleared by a signal, KeyboardInterrupt, an exception of the
\* scheduler's start() or of the loop); an exception of stop() itself stays
\* inside _shutdown: it marks no exception as leaving start() and the main
\* thread goes on to the end of _shutdown.
C35_ShutdownOnEveryExit ==
    /\ [][(app.pc # "exited" /\ app'.pc = "exited") =>
              app.pc = "shutdown" /\ app.stop_called]_vars
    /\ [][(app.pc = "shutdown" /\ ~app.stop_called /\ app'.stop_called) =>
              app'.pc = "shutdown" /\ app'.exc = app.exc]_vars

\* start() has let an exception out, after stop() was called
C35_Witness == app.pc = "exited" /\ app.exc /\ app.stop_called /\ ~running

\* C36: the signal handler clears Application.running and changes nothing
\* else (it stops no scheduler, clears no job, ends no thread); once the flag
\* is cleared while the main thread is in its loop, the main thread leaves the
\* loop and the scheduler's running flag is cleared.
C36_SignalLeadsToStopped ==
    /\ [][(app.running /\ ~app'.running) =>
              /\ app' = [app EXCEPT !.running = FALSE]
              /\ UNCHANGED <<now, running, scheduler_thread, jobs, thr, mainpc, man,
                             warned, result, probe>>
              /\ UNCHANGED storeVars]_vars
    /\ (app.pc = "main" /\ ~app.running) ~>
           (app.pc \in {"shutdown", "exited"} /\ app.stop_called /\ ~running)

\* the flag was cleared, the loop was left without an exception and stop()
\* has cleared the scheduler's flag
C36_Witness ==
    /\ app.pc = "shutdown" /\ ~app.running /\ ~app.exc
    /\ app.stop_called /\ ~running

\* C37: the commands "run" and "status" leave the scheduler stopped, with no
\* job registered and no dispatch-loop thread; run_once without a task name
\* calls nothing (no wrapper is started, no result is produced), and
\* run_once with a name calls run_task_now once, which runs no wrapper but
\* the named one, and that one at most once.
C37_CommandsLeaveSchedulerStopped ==
    /\ ~running /\ jobs = << >> /\ thr = << >> /\ scheduler_thread = 0
    /\ probe.op = "run_once" =>
          /\ probe.calls <= 1
          /\ Len(probe.ran) <= 1
          /\ \A k \in 1..Len(probe.ran) : probe.ran[k] = probe.task
          /\ man.pc = "job" => man.task = probe.task /\ probe.ran = << >>
          /\ probe.task = "" =>
                probe.calls = 0 /\ probe.ran = << >> /\ man = ManIdle /\ result = NoResult
    /\ probe.op = "show_status" => man = ManIdle /\ result = NoResult

\* run_once has run the named wrapper and returned
C37_Witness ==
    /\ app.pc = "exited" /\ probe.op = "run_once"
    /\ probe.ran = <<"daily_data_sync">> /\ ~running

Count(seq, x) == Cardinality({k \in 1..Len(seq) : seq[k] = x})

\* C38: a session of session_scope is closed once, and never twice: when the
\* scope is left, close is the last call made on it and nothing uncommitted
\* is left; after a block that ended normally and a commit that worked the
\* calls are commit, close, the block's rows are committed and the scope
\* returns; after a block that raised no commit was called, nothing of the
\* block is committed, the caller gets the exception the block raised, and
\* for an Exception the calls are rollback, close.
C38_SessionClosedOnce ==
    /\ Count(sess.calls, "close") <= 1
    /\ sess.pc = "left" =>
          /\ Count(sess.calls, "close") = 1
          /\ sess.calls[Len(sess.calls)] = "close"
          /\ sess.pending = {}
          /\ (sess.block = "ok" /\ sess.exc = "-") =>
                /\ sess.calls = <<"commit", "close">>
                /\ sess.committed = sess.written
                /\ sess.out = "returned"
          /\ sess.block # "ok" =>
                /\ Count(sess.calls, "commit") = 0
                /\ sess.committed = {}
                /\ sess.out = sess.block
                /\ sess.block \in Exceptions => sess.calls = <<"rollback", "close">>

\* a with_session function has added rows and raised, and the scope is left
C38_Witness ==
    /\ sess.pc = "left" /\ sess.via = "with_session"
    /\ sess.block \in Exceptions /\ sess.written # {}

\* what became of the mail of a call
MailOf(p) == IF p.op = "send_email" THEN p.ret ELSE p.ret.mail
Unconfigured(p) ==
    \/ p.cfg.sender_email = ""
    \/ p.cfg.sender_password = ""
    \/ Recipients(p.cfg, p.arg) = << >>

\* C31: when the sender address, the sender password or the recipients are
\* missing, a send returns a failure result and has opened no SMTP connection.
C31_MissingConfigDetectedBeforeSend ==
    (probe.op \in {"send_email", "send_daily_report"} /\ Unconfigured(probe)) =>
        /\ ~probe.ret.success
        /\ MailOf(probe).connects = 0

\* C39: send_daily_report calls the mail service only when the report was
\* generated: after a failed generation it returns the failure, without
\* having called send_template_email; otherwise report_generated is true and
\* success is the success of the mail service's result, which is true only
\* when the mail was handed to the SMTP server.
C39_SendOnlyAfterGeneration ==
    probe.op = "send_daily_report" =>
        /\ ~probe.gen_ok =>
              /\ ~probe.ret.success /\ probe.ret.error = "generation"
              /\ probe.ret.calls = 0 /\ probe.ret.mail = NoMail
        /\ probe.gen_ok =>
              /\ probe.ret.calls = 1
              /\ probe.ret.report_generated = "T"
              /\ probe.ret.success = probe.ret.mail.success
              /\ probe.ret.success => probe.ret.mail.sent

\* a report that was generated and mailed
C39_Witness ==
    /\ probe.op = "send_daily_report" /\ probe.gen_ok
    /\ probe.ret.success /\ probe.ret.mail.sent /\ probe.ret.mail.connects = 1

Seeded(rows) == \A dt \in DataTypes : \E k \in 1..Len(rows) : rows[k].data_type = dt
Sampled(rows) == \A k \in 1..Len(sample_stocks) : \E r \in rows : r.code = sample_stocks[k].code

\* C40: once init_base_data has run the ledger has an entry of every type
\* and keeps one, and a run of init_base_data on such a ledger leaves it as
\* it is; once create_sample_stock has run the table has a row of every
\* sample code and keeps one, and a run of create_sample_stock on such a
\* table leaves every row as it is and adds none.
C40_InitializationIdempotent ==
    /\ [][init_base_data => Seeded(ledger')]_vars
    /\ [][Seeded(ledger) => Seeded(ledger')]_vars
    /\ [][(init_base_data /\ Seeded(ledger)) => ledger' = ledger]_vars
    /\ [][create_sample_stock => Sampled(stocks') /\ ~sync'.raised]_vars
    /\ [][Sampled(stocks) => Sampled(stocks')]_vars
    /\ [][(create_sample_stock /\ Sampled(stocks)) => stocks' = stocks]_vars

\* both have run again, after a sync unit was begun and a sample stock was
\* renamed, and have created nothing
C40_Witness ==
    /\ sync.op = "create_sample_stock" /\ sync.created = 0
    /\ Len(ledger) > Len(log_types) /\ Seeded(ledger)
    /\ \E r \in stocks : r.code = "000001" /\ r.name = "n1"

\* C32: rows of daily_data and technical_indicators change only in a stage
\* of a Sync Orchestrator operation that a wrapper has invoked, never in a
\* step of a wrapper itself, and no row of daily_data ever goes away; the
\* data cleanup wrapper leaves all tables as they are: what it removes are
\* files of logs/ that end in .log and are older than the cutoff.
C32_JobsWriteOnlyThroughSync ==
    /\ [][(daily' # daily \/ indicators' # indicators) =>
              /\ sync.pc \in {"symbols", "indicators"}
              /\ man.pc = "wait" /\ man.call \in SyncOps /\ man' = man]_vars
    /\ [][\A r \in daily : \E x \in daily' : x.id = r.id /\ x.key = r.key]_vars
    /\ [][man.call = "cleanup_logs" =>
              /\ daily' = daily /\ indicators' = indicators /\ stocks' = stocks
              /\ logs' \subseteq logs
              /\ \A f \in logs \ logs' :
                    f.suffix = ".log" /\ f.mtime < cutoff_date(now)]_vars
    /\ [][logs' # logs => man.call = "cleanup_logs"]_vars

\* the cleanup wrapper has removed a file while price bars are stored
C32_Witness ==
    /\ man.task = "data_cleanup" /\ man.pc = "wait"
    /\ logs # LogFiles /\ daily # {}

====
